---- MODULE Spec2Model ----
(***************************************************************************)
(* A model of the SIP relay server: the RTP sender loop                    *)
(* (helper/rtp_handler.py), the per-session port allocator and RTP session *)
(* (helper/sip_session.py), the SDP part of the SIP parser                 *)
(* (helper/sip_parsers.py) and the dialog handlers of RelayServer          *)
(* (receive_server.py).                                                    *)
(*                                                                         *)
(* The specifications of the module:                                       *)
(*   SpecRTP     one RTPSender object: its start/stop, its queue and the   *)
(*               thread running _send_loop (SpecRTPLive: the thread is     *)
(*               scheduled fairly);                                        *)
(*   SpecRecv    one RTPReceiver object and its thread, fed in order       *)
(*               (SpecRx: fed any datagram);                               *)
(*   Spec        the listener loop of RelayServer handling SIP messages    *)
(*               and control commands one at a time, with the RTP threads  *)
(*               of the dialogs running beside it (SpecLive: the sender    *)
(*               threads are scheduled fairly);                            *)
(*   SpecWS      the WebsocketServer of the control channel with its       *)
(*               connections (SpecQ: the relay publishing with no client); *)
(*   SpecBridge  the loop of the media bridge (call_center.py)             *)
(*               (SpecCalls: with the history of its calls);               *)
(*   SpecPool    one RTPPortAllocator and its caller;                      *)
(*   SpecCodec   one RTPPacket through pack and unpack;                    *)
(*   SpecFraming one control command through __str__ and the parser.       *)
(***************************************************************************)
EXTENDS Integers, Sequences, FiniteSets, TLC

VARIABLES
    sender,     \* the RTPSender object of SpecRTP
    emitted,    \* the last two packets the sender handed to sock.sendto
    ticks,      \* packets sent in this run (bounds the run)
    barge,      \* the far end speaking over queued audio, and what became of that audio
    sessions,   \* RelayServer.sessions: Call-ID -> SIPRTPSession
    bound,      \* local UDP ports held by an open RTP socket
    acksSent,   \* Call-ID -> number of ACK requests put on the wire
    uuids,      \* Call-IDs already produced by uuid4 in _handle_call
    last,       \* what the handler that ran last did (wire, control channel, error)
    steps,      \* messages taken by the listener loop (bounds the run)
    wsRunning,  \* WebsocketServer.running
    wsSendQ,    \* WebsocketServer.send_queue
    wsRecvQ,    \* WebsocketServer.recv_queue
    conns,      \* client -> its connection: handler, recv_loop and send_loop
    wsEnqueued, \* frames given to send_message so far
    wsLatest,   \* the client that connected last
    wsSent,     \* frames the clients have sent (bounds the run)
    wsWire,     \* the frames websocket.send has sent, in the order of the sends
    receiver,   \* one RTPReceiver object: its flag, its thread and its queue
    bridge,     \* the media bridge: its RTPSession and its place in main
    inbox,      \* frames the bridge's connection holds for its loop
    capture,    \* history of the bridge: the call phase and frames buffered outside it
    pool,       \* one RTPPortAllocator object
    issued,     \* the pairs allocate_pair has returned from it, in order
    poolLast,   \* what the last call on the allocator did
    codec,      \* one RTPPacket, its packed bytes and what unpack made of them
    framing     \* one control command, its wire form and what the parser made of it

rtpVars == <<sender, emitted, ticks, barge>>
srvVars == <<sessions, bound, acksSent, uuids, last, steps>>
rcvVars == <<receiver>>
brVars == <<bridge, inbox, capture>>
poolVars == <<pool, issued, poolLast>>
fnVars == <<pool, issued, poolLast, codec, framing>>
wsVars == <<wsRunning, wsSendQ, wsRecvQ, conns, wsEnqueued, wsLatest, wsSent, wsWire>>
vars == <<sender, emitted, ticks, barge, sessions, bound, acksSent, uuids, last, steps,
          wsRunning, wsSendQ, wsRecvQ, conns, wsEnqueued, wsLatest, wsSent, wsWire,
          receiver, bridge, inbox, capture, pool, issued, poolLast, codec, framing>>

(***************************************************************************)
(* Bounds of the model.                                                    *)
(***************************************************************************)
MaxTicks == 3
MaxQueue == 2
MaxSteps == 3
MaxRecv == 1
MaxFrames == 3
MaxCmds == 2
MaxBurst == 1001
MaxPackets == 501
MaxInbox == 2
MaxBuffer == 51
MaxSilence == 11
MaxPayload == 1452
MaxDatagrams == 3
WsQueueMax == 1000
RtpRecvQueueMax == 500
MinimumNumberPacket == 50

(***************************************************************************)
(* Program constants.                                                      *)
(***************************************************************************)
SeqModulus == 65536
SamplesPerPacket == 160
StartPort == 31000
EndPort == 31010

(***************************************************************************)
(* 32-bit unsigned values are kept as two 16-bit halves, so that the       *)
(* wrap of the RTP timestamp at 2^32 is computed exactly.                  *)
(***************************************************************************)
U32(hi, lo) == [hi |-> hi, lo |-> lo]

\* x + k without a mask, k < 2^16 (the high half may leave 16 bits)
Add32Raw(x, k) ==
    U32(x.hi + ((x.lo + k) \div SeqModulus), (x.lo + k) % SeqModulus)

\* (x) & 0xFFFFFFFF
Mask32(x) == U32(x.hi % SeqModulus, x.lo)

\* 160 * n mod 2^32: the timestamp after n packets
TsOfCount(n) ==
    LET a == n \div SeqModulus
        b == n % SeqModulus
        low == SamplesPerPacket * b
    IN  U32((SamplesPerPacket * a + (low \div SeqModulus)) % SeqModulus,
            low % SeqModulus)

(***************************************************************************)
(* RTPSender                                                               *)
(***************************************************************************)
Payloads == {"p1", "p2"}

\* Packet counts the sender of SpecRTP starts from: a fresh sender, and
\* senders that are about to wrap the sequence, the timestamp, and both.
StartCounts == {0, 65534, 26843544, 134217726}

NextSequenceNoWrap(seq) == seq + 1

\* self.sequence = (self.sequence + 1) & 0xFFFF
NextSequence(seq) == (seq + 1) % SeqModulus

\* self.timestamp = (self.timestamp + 160) & 0xFFFFFFFF
NextTimestamp(ts) == Mask32(Add32Raw(ts, SamplesPerPacket))

\* RTPSender.__init__, and the same object after n packets
SenderAfter(n) ==
    [running   |-> n > 0,
     pc        |-> IF n > 0 THEN "while" ELSE "none",
     sequence  |-> n % SeqModulus,
     timestamp |-> TsOfCount(n),
     queue     |-> <<>>,
     raised    |-> "none"]

\* RTPSender.start
SenderStart ==
    /\ IF sender.running
         THEN sender' = [sender EXCEPT !.raised = "RuntimeError"]
         ELSE IF sender.pc \in {"while", "get"}
           THEN sender' = [sender EXCEPT !.raised = "RuntimeError"]
           ELSE sender' = [sender EXCEPT !.running = TRUE, !.pc = "while",
                                         !.raised = "none"]
    /\ UNCHANGED <<emitted, ticks, barge>>

\* RTPSender.stop
SenderStop ==
    /\ sender.running
    /\ sender' = [sender EXCEPT !.running = FALSE]
    /\ UNCHANGED <<emitted, ticks, barge>>

\* RTPSender.send_rtp_packet
SendRtpPacket(p) ==
    /\ Len(sender.queue) < MaxQueue
    /\ sender' = [sender EXCEPT !.queue = Append(@, p)]
    /\ UNCHANGED <<emitted, ticks, barge>>

\* _send_loop: the test of `while self._running`
SendLoopTest ==
    /\ sender.pc = "while"
    /\ sender' = [sender EXCEPT !.pc = IF sender.running THEN "get" ELSE "dead"]
    /\ UNCHANGED <<emitted, ticks, barge>>

\* _send_loop: one pass of the body; self._send_queue.get() blocks on an
\* empty queue
SendLoopBody ==
    /\ sender.pc = "get"
    /\ sender.queue # <<>>
    /\ ticks < MaxTicks
    /\ LET packet == [sequence  |-> sender.sequence,
                      timestamp |-> sender.timestamp,
                      payload   |-> Head(sender.queue)]
       IN  emitted' = IF Len(emitted) < 2 THEN Append(emitted, packet)
                      ELSE <<emitted[2], packet>>
    /\ sender' = [sender EXCEPT !.queue = Tail(@),
                                !.sequence = NextSequence(@),
                                !.timestamp = NextTimestamp(@),
                                !.pc = "while"]
    /\ ticks' = ticks + 1
    /\ barge' = IF barge.stale > 0
                  THEN [barge EXCEPT !.stale = @ - 1, !.sent = TRUE]
                  ELSE barge

\* No payload queued before the far end spoke
NoBarge == [spoke |-> FALSE, stale |-> 0, sent |-> FALSE]

\* RTPReceiver._recv_loop while the sender has audio queued: the far end
\* starts to speak, its packets are buffered and published; the send queue
\* of the sender is not touched and the sender is not told
UserSpeaks ==
    /\ sender.running
    /\ sender.queue # <<>>
    /\ ~barge.spoke
    /\ barge' = [spoke |-> TRUE, stale |-> Len(sender.queue), sent |-> FALSE]
    /\ UNCHANGED <<sender, emitted, ticks>>

(***************************************************************************)
(* SDP bodies.  A body is the list of its lines by kind: the session-level *)
(* c= line (its words, <<>> when absent) and the media blocks, each with   *)
(* the words of its m= line (type, port, payload types) and its own c=.    *)
(* wellFormed says whether the required o= and t= lines are there.         *)
(***************************************************************************)
Conn(ip) == <<"IN", "IP4", ip>>
Media(type, port, pts, c) == [type |-> type, port |-> port, pts |-> pts, c |-> c]
RawSdp(ok, c, media) == [wellFormed |-> ok, c |-> c, media |-> media]

\* c=IN IP4 203.0.113.7 / m=audio 4000 RTP/AVP 0 8 96
OfferSessionC == RawSdp(TRUE, Conn("203.0.113.7"), <<Media("audio", 4000, <<0, 8, 96>>, <<>>)>>)
OfferMediaC   == RawSdp(TRUE, <<>>, <<Media("audio", 4000, <<0, 8>>, Conn("203.0.113.8"))>>)
OfferBothC    == RawSdp(TRUE, Conn("203.0.113.7"), <<Media("audio", 4002, <<8, 0>>, Conn("203.0.113.8"))>>)
OfferDynamic  == RawSdp(TRUE, <<>>, <<Media("audio", 4000, <<96>>, Conn("203.0.113.8"))>>)
OfferNoConn   == RawSdp(TRUE, <<>>, <<Media("audio", 4000, <<8>>, <<>>)>>)
OfferNoMedia  == RawSdp(TRUE, Conn("203.0.113.7"), <<>>)
OfferVideo    == RawSdp(TRUE, <<>>, <<Media("video", 4000, <<8>>, Conn("203.0.113.8"))>>)
OfferBroken   == RawSdp(FALSE, Conn("203.0.113.7"), <<Media("audio", 4000, <<8>>, <<>>)>>)

RawOffers == {OfferSessionC, OfferMediaC, OfferBothC, OfferDynamic, OfferNoConn,
              OfferNoMedia, OfferVideo, OfferBroken}
RawAnswers == {OfferSessionC, OfferMediaC}

\* The body of a SIP message as the peer sends it
NoBody == [kind |-> "none", raw |-> OfferBroken]
TextBody == [kind |-> "text", raw |-> OfferBroken]
SdpBody(raw) == [kind |-> "sdp", raw |-> raw]
InviteBodies == {NoBody, TextBody} \cup {SdpBody(r) : r \in RawOffers}
AnswerBodies == {NoBody} \cup {SdpBody(r) : r \in RawAnswers}

\* parse_sdp_message: the media blocks are rebuilt with c=str(...), so a
\* block without a c= line gets the text "None"; the a= lines are dropped
ParseMedia(m) == [m EXCEPT !.c = IF m.c = <<>> THEN <<"None">> ELSE m.c]

RECURSIVE ParseBlocks(_)
ParseBlocks(blocks) ==
    IF blocks = <<>> THEN <<>>
    ELSE <<ParseMedia(Head(blocks))>> \o ParseBlocks(Tail(blocks))

ParseSdpMessage(raw) == [c |-> raw.c, media |-> ParseBlocks(raw.media)]

\* parse_sip_message: the body becomes an SDPMessage when it is SDP and
\* parses, and stays a string otherwise
ParsedBody(body) ==
    IF body.kind = "sdp" /\ body.raw.wellFormed
      THEN [kind |-> "sdp", sdp |-> ParseSdpMessage(body.raw)]
      ELSE [kind |-> IF body.kind = "none" THEN "none" ELSE "text",
            sdp |-> ParseSdpMessage(OfferBroken)]

\* RTPSessionParams._get_codec_name
GetCodecName(pt) ==
    IF pt = 0 THEN "PCMU" ELSE IF pt = 8 THEN "PCMA" ELSE "unknown"

NoParams == [remote_ip |-> "", remote_port |-> 0, payload_type |-> -1, codec |-> ""]
Raised(e) == [raised |-> e, params |-> NoParams]

\* RTPSessionParams.from_sdp
FromSdp(sdp) ==
    IF sdp.media = <<>> THEN Raised("ValueError")
    ELSE
      LET audio == sdp.media[1]
          conn == IF sdp.c # <<>> THEN sdp.c ELSE audio.c
      IN  IF sdp.c = <<>> /\ audio.c = <<>> THEN Raised("ValueError")
          ELSE IF Len(conn) < 3 THEN Raised("ValueError")
          ELSE IF audio.c # <<>> /\ Len(audio.c) < 3 THEN Raised("IndexError")
          ELSE IF Len(audio.pts) < 1 THEN Raised("ValueError")
          ELSE IF audio.type # "audio" THEN Raised("ValueError")
          ELSE [raised |-> "none",
                params |-> [remote_ip    |-> IF audio.c # <<>> THEN audio.c[3] ELSE conn[3],
                            remote_port  |-> audio.port,
                            payload_type |-> audio.pts[1],
                            codec        |-> GetCodecName(audio.pts[1])]]

(***************************************************************************)
(* RTPPortAllocator                                                        *)
(***************************************************************************)
NewAllocator == [start_port |-> StartPort, end_port |-> EndPort,
                 next_port |-> StartPort, allocated |-> {}]

RECURSIVE AllocatePair(_)
AllocatePair(a) ==
    IF a.next_port < a.end_port
      THEN LET send_port == a.next_port
               recv_port == a.next_port + 2
               a1 == [a EXCEPT !.next_port = @ + 4]
           IN  IF send_port \notin a.allocated /\ recv_port \notin a.allocated
                 THEN [ok |-> TRUE, send_port |-> send_port, recv_port |-> recv_port,
                       alloc |-> [a1 EXCEPT !.allocated = @ \cup {send_port, recv_port}]]
                 ELSE AllocatePair(a1)
      ELSE [ok |-> FALSE, send_port |-> 0, recv_port |-> 0, alloc |-> a]

\* the pair stays in the allocated set
KeepPair(a, send_port, recv_port) == a

\* RTPPortAllocator.release_pair
ReleasePair(a, send_port, recv_port) ==
    [a EXCEPT !.allocated = @ \ {send_port, recv_port}]

\* the allocator alone: a caller that allocates pairs and gives back pairs
\* it was given; the end of the range is any port up to the default one
EndPorts == (StartPort + 1)..EndPort

NoPoolCall == [op |-> "none", ok |-> TRUE, send_port |-> 0, recv_port |-> 0,
               before |-> {}]

InitPool ==
    /\ \E e \in EndPorts : pool = [NewAllocator EXCEPT !.end_port = e]
    /\ issued = <<>>
    /\ poolLast = NoPoolCall

PoolAllocate ==
    LET r == AllocatePair(pool)
    IN  /\ pool' = r.alloc
        /\ issued' = IF r.ok THEN Append(issued, <<r.send_port, r.recv_port>>)
                              ELSE issued
        /\ poolLast' = [op |-> "allocate_pair", ok |-> r.ok,
                        send_port |-> r.send_port, recv_port |-> r.recv_port,
                        before |-> pool.allocated]

PoolRelease(i) ==
    /\ pool' = ReleasePair(pool, issued[i][1], issued[i][2])
    /\ poolLast' = [op |-> "release_pair", ok |-> TRUE,
                    send_port |-> issued[i][1], recv_port |-> issued[i][2],
                    before |-> pool.allocated]
    /\ UNCHANGED issued

InitPoolIdle ==
    /\ pool = NewAllocator
    /\ issued = <<>>
    /\ poolLast = NoPoolCall

(***************************************************************************)
(* RTPHandler and SIPRTPSession                                            *)
(***************************************************************************)
NoHandle == [local_port |-> 0, sock_open |-> FALSE, audio_codec |-> "",
             snd_running |-> FALSE, snd_thread |-> "none",
             rcv_running |-> FALSE, rcv_thread |-> "none",
             send_queue |-> 0, recv_buffer |-> 0]

\* RTPHandler.__init__ once the socket is bound: the codec argument is
\* never given, so the engine encodes and decodes PCMA
NewHandle(port) == [NoHandle EXCEPT !.local_port = port, !.sock_open = TRUE,
                                    !.audio_codec = "PCMA"]

\* socket.bind((local_ip, local_port)) succeeds
CanBind(port, bnd, bindOk) == bindOk /\ port \notin bnd

\* SIPSession.__init__: every session builds an allocator of its own
NewSession == [has_handle |-> FALSE, rtp |-> NoHandle, params |-> NoParams,
               local_send_port |-> 0, local_recv_port |-> 0,
               alloc |-> NewAllocator]

\* RTPHandler.start: receiver.start() then sender.start(), each refusing
\* to start twice
HandlerStart(h) ==
    IF h.rcv_running \/ h.rcv_thread = "alive"
      THEN [rtp |-> h, raised |-> "RuntimeError"]
      ELSE LET h1 == [h EXCEPT !.rcv_running = TRUE, !.rcv_thread = "alive"]
           IN  IF h.snd_running \/ h.snd_thread = "alive"
                 THEN [rtp |-> h1, raised |-> "RuntimeError"]
                 ELSE [rtp |-> [h1 EXCEPT !.snd_running = TRUE, !.snd_thread = "alive"],
                       raised |-> "none"]

\* RTPHandler.stop: the sender thread blocked in queue.get() on an empty
\* queue outlives the join; the receiver thread leaves at its next timeout
HandlerStop(h) ==
    [h EXCEPT !.snd_running = FALSE,
              !.snd_thread = IF @ = "alive" /\ h.send_queue > 0 THEN "dead" ELSE @,
              !.rcv_running = FALSE,
              !.rcv_thread = IF @ = "alive" THEN "dead" ELSE @,
              !.sock_open = FALSE]

\* SIPRTPSession.stop_and_save; saveOk: writing the WAV file succeeds
StopAndSave(s, bnd, withPath, saveOk) ==
    IF ~s.has_handle THEN [session |-> s, bound |-> bnd, raised |-> "none"]
    ELSE
      LET stopped == [s EXCEPT !.rtp = HandlerStop(s.rtp)]
          bnd1 == IF s.rtp.sock_open THEN bnd \ {s.rtp.local_port} ELSE bnd
      IN  IF withPath /\ s.rtp.recv_buffer > 0 /\ ~saveOk
            THEN [session |-> stopped, bound |-> bnd1, raised |-> "OSError"]
            ELSE [session |->
                     IF s.local_send_port # 0 /\ s.local_recv_port # 0
                       THEN [stopped EXCEPT !.alloc =
                               ReleasePair(@, s.local_send_port, s.local_recv_port)]
                       ELSE stopped,
                  bound |-> bnd1, raised |-> "none"]

(***************************************************************************)
(* RelayServer: what goes on the wire and on the control channel           *)
(***************************************************************************)
CallIds == {"c1", "c2"}
Uuids == {"u1", "u2"}
AllIds == CallIds \cup Uuids
NoCallId == ""

NoSdp == [m_port |-> 0, m_pt |-> -1, rtpmap_pt |-> -1, rtpmap_codec |-> ""]

\* a provisional response in place of the final one
Trying(code) == [kind |-> "response", code |-> 100, sdp |-> NoSdp]

\* _build_response
Response(code) == [kind |-> "response", code |-> code, sdp |-> NoSdp]

\* SDPBuilder.build_answer and _serialize_sdp: the m= line of the answer
\* carries the receive port and the payload type of the params; the rtpmap
\* line written after it is always the same
SerializeSdp(port, params) ==
    [m_port |-> port, m_pt |-> params.payload_type,
     rtpmap_pt |-> 0, rtpmap_codec |-> "PCMA"]

\* _build_ok_response
OkResponse(port, params) ==
    [kind |-> "response", code |-> 200, sdp |-> SerializeSdp(port, params)]

AckRequest == [kind |-> "ACK", code |-> 0, sdp |-> NoSdp]
InviteRequest == [kind |-> "INVITE", code |-> 0, sdp |-> NoSdp]

\* WSCommandHelper.builder
Frame(type, content) == [type |-> type, content |-> content]

\* msg.headers.from_.split(" ")[0].replace('"', "")
Caller == "0903383638"

Remove(f, c) == [x \in (DOMAIN f) \ {c} |-> f[x]]
Put(f, c, v) == [x \in (DOMAIN f) \cup {c} |-> IF x = c THEN v ELSE f[x]]

\* What one run of a handler leaves behind
\* (obj: the session object the handler worked on, as it is afterwards)
Outcome(ss, bnd, acks, sip, ws, exc, obj) ==
    [sessions |-> ss, bound |-> bnd, acks |-> acks, sip |-> sip, ws |-> ws,
     exc |-> exc, obj |-> obj]

(***************************************************************************)
(* SIPSession.handle_invite                                                *)
(***************************************************************************)
\* handle_invite starting the engine as soon as it is built
SessionHandleInviteStarted(body, bnd, bindOk) ==
    LET p == FromSdp(body.sdp)
        a == AllocatePair(NewSession.alloc)
    IN  IF p.raised # "none" \/ ~a.ok \/ ~CanBind(a.send_port, bnd, bindOk)
          THEN [raised |-> "ValueError", session |-> NewSession]
          ELSE [raised |-> "none",
                session |-> [NewSession EXCEPT
                               !.params = p.params,
                               !.local_send_port = a.send_port,
                               !.local_recv_port = a.recv_port,
                               !.alloc = a.alloc,
                               !.has_handle = TRUE,
                               !.rtp = HandlerStart(NewHandle(a.send_port)).rtp]]

SessionHandleInvite(body, bnd, bindOk) ==
    LET p == FromSdp(body.sdp)
        a == AllocatePair(NewSession.alloc)
    IN  IF p.raised # "none"
          THEN [raised |-> p.raised, session |-> NewSession]
        ELSE IF ~a.ok
          THEN [raised |-> "RuntimeError", session |-> NewSession]
        ELSE IF ~CanBind(a.send_port, bnd, bindOk)
          THEN [raised |-> "OSError",
                session |-> [NewSession EXCEPT
                               !.params = p.params,
                               !.local_send_port = a.send_port,
                               !.local_recv_port = a.recv_port,
                               !.alloc = a.alloc]]
        ELSE [raised |-> "none",
              session |-> [NewSession EXCEPT
                             !.params = p.params,
                             !.local_send_port = a.send_port,
                             !.local_recv_port = a.recv_port,
                             !.alloc = a.alloc,
                             !.has_handle = TRUE,
                             !.rtp = NewHandle(a.send_port)]]

\* _handle_invite without its look into the dialog table
OnInviteNoDupCheck(c, rawBody, hasFrom, bindOk) ==
    LET body == ParsedBody(rawBody)
        r == SessionHandleInvite(body, bound, bindOk)
    IN  IF body.kind = "none"
          THEN Outcome(sessions, bound, acksSent, <<Response(400)>>, <<>>, "none",
                       NewSession)
        ELSE IF body.kind = "text" \/ r.raised = "ValueError"
          THEN Outcome(sessions, bound, acksSent, <<Response(488)>>, <<>>, "none",
                       NewSession)
        ELSE IF r.raised # "none"
          THEN Outcome(sessions, bound, acksSent, <<Response(500)>>, <<>>, "none",
                       r.session)
        ELSE Outcome(Put(sessions, c, r.session),
                     bound \cup {r.session.rtp.local_port},
                     acksSent,
                     <<OkResponse(r.session.local_recv_port, r.session.params)>>,
                     IF hasFrom THEN <<Frame("RING_ANS", Caller)>> ELSE <<>>,
                     "none", r.session)

(***************************************************************************)
(* RelayServer._handle_invite                                              *)
(***************************************************************************)
OnInvite(c, rawBody, hasFrom, bindOk) ==
    LET body == ParsedBody(rawBody)
        r == SessionHandleInvite(body, bound, bindOk)
    IN  IF c \in DOMAIN sessions
          THEN Outcome(sessions, bound, acksSent, <<Response(488)>>, <<>>, "none",
                       sessions[c])
        ELSE IF body.kind = "none"
          THEN Outcome(sessions, bound, acksSent, <<Response(400)>>, <<>>, "none",
                       NewSession)
        ELSE IF body.kind = "text"
          THEN Outcome(sessions, bound, acksSent, <<Response(488)>>, <<>>, "none",
                       NewSession)
        ELSE IF r.raised = "ValueError"
          THEN Outcome(sessions, bound, acksSent, <<Response(488)>>, <<>>, "none",
                       NewSession)
        ELSE IF r.raised # "none"
          THEN Outcome(sessions, bound, acksSent, <<Response(500)>>, <<>>, "none",
                       r.session)
        ELSE Outcome(Put(sessions, c, r.session),
                     bound \cup {r.session.rtp.local_port},
                     acksSent,
                     <<OkResponse(r.session.local_recv_port, r.session.params)>>,
                     IF hasFrom THEN <<Frame("RING_ANS", Caller)>> ELSE <<>>,
                     "none", r.session)

(***************************************************************************)
(* RelayServer._handle_ack.  start_rtp is not in the sources: it stands    *)
(* for starting the engine of the session, RTPHandler.start.  The greeting *)
(* is queued by start_audio when the greeting file exists.                 *)
(***************************************************************************)
GreetingFrames == 1

StartRtp(s) ==
    IF ~s.has_handle THEN [session |-> s, raised |-> "RuntimeError"]
    ELSE LET r == HandlerStart(s.rtp)
         IN  [session |-> [s EXCEPT !.rtp = r.rtp], raised |-> r.raised]

\* SIPRTPSession.start_audio(mode="wav"); an exception of it is logged by
\* the caller
StartAudio(s) ==
    IF ~s.has_handle THEN s
    ELSE [s EXCEPT !.rtp.send_queue = @ + GreetingFrames]

\* the tail shared by _handle_ack and _handle_send_ack
StartRtpAndGreet(s, greeting) ==
    LET r == StartRtp(s)
    IN  IF r.raised # "none" THEN r
        ELSE [session |-> IF greeting THEN StartAudio(r.session) ELSE r.session,
              raised |-> "none"]

OnAck(c, greeting) ==
    IF c \notin DOMAIN sessions
      THEN Outcome(sessions, bound, acksSent, <<>>, <<>>, "none", NewSession)
      ELSE LET r == StartRtpAndGreet(sessions[c], greeting)
           IN  Outcome(Put(sessions, c, r.session), bound, acksSent, <<>>, <<>>,
                       r.raised, r.session)

(***************************************************************************)
(* RelayServer._handle_bye                                                 *)
(***************************************************************************)
OnBye(c, saveOk) ==
    IF c \notin DOMAIN sessions
      THEN Outcome(sessions, bound, acksSent, <<Response(200)>>, <<>>, "none",
                   NewSession)
      ELSE LET r == StopAndSave(sessions[c], bound, TRUE, saveOk)
           IN  IF r.raised # "none"
                 THEN Outcome(Put(sessions, c, r.session), r.bound, acksSent,
                              <<Response(500)>>, <<>>, "none", r.session)
                 ELSE Outcome(Remove(sessions, c), r.bound, acksSent,
                              <<Response(200)>>, <<Frame("BYE", "")>>, "none",
                              r.session)

(***************************************************************************)
(* RelayServer._handle_cancel                                              *)
(***************************************************************************)
OnCancel(c) ==
    LET r == IF c \in DOMAIN sessions
               THEN StopAndSave(sessions[c], bound, FALSE, TRUE)
               ELSE [session |-> NewSession, bound |-> bound, raised |-> "none"]
    IN  Outcome(Remove(sessions, c), r.bound, acksSent,
                <<Response(200)>>, <<Frame("RING_IGNORE", "")>>, "none", r.session)

(***************************************************************************)
(* RelayServer._handle_send_ack: a 200 OK to our INVITE.  Nothing sets     *)
(* ack_sent on a SIPRTPSession, so getattr(session, "ack_sent", False) is  *)
(* False.  create_rtp_handler is not in the sources: it stands for taking  *)
(* the params from the answer and building the RTPHandler of the session   *)
(* on its local send port.                                                 *)
(***************************************************************************)
AckAlreadySent(s) == FALSE

CreateRtpHandler(s, sdp, bnd, bindOk) ==
    LET p == FromSdp(sdp)
    IN  IF p.raised # "none"
          THEN [raised |-> p.raised, session |-> s, bound |-> bnd]
        ELSE IF ~CanBind(s.local_send_port, bnd, bindOk)
          THEN [raised |-> "OSError", session |-> s, bound |-> bnd]
        ELSE [raised |-> "none",
              session |-> [s EXCEPT !.params = p.params, !.has_handle = TRUE,
                                    !.rtp = NewHandle(s.local_send_port)],
              bound |-> bnd \cup {s.local_send_port}]

OnSendAck(c, rawBody, bindOk, greeting, saveOk) ==
    LET s == sessions[c]
        body == ParsedBody(rawBody)
        h == CreateRtpHandler(s, body.sdp, bound, bindOk)
        g == StartRtpAndGreet(h.session, greeting)
        acks == [acksSent EXCEPT ![c] = @ + 1]
        sip == <<AckRequest>>
        ws == <<Frame("CALL_ANS", "")>>
    IN  IF AckAlreadySent(s)
          THEN Outcome(sessions, bound, acksSent, <<>>, <<>>, "none", s)
        ELSE IF body.kind # "sdp"
          THEN OnBye(c, saveOk)
        ELSE IF h.raised # "none"
          THEN Outcome(sessions, bound, acks, sip, ws, h.raised, s)
        ELSE Outcome(Put(sessions, c, g.session), h.bound, acks, sip, ws,
                     g.raised, g.session)

(***************************************************************************)
(* RelayServer._handle_response.  cseq is the method named in the CSeq     *)
(* header, "" when the header is missing.  CommandType has no member       *)
(* CALL_FAILED, so building that command raises AttributeError.            *)
(***************************************************************************)
Statuses == {180, 183, 200, 486}
CSeqMethods == {"", "INVITE", "BYE"}

OnResponse(c, status, cseq, rawBody, bindOk, greeting, saveOk) ==
    LET nothing == Outcome(sessions, bound, acksSent, <<>>, <<>>, "none", NewSession)
    IN  IF c = NoCallId \/ c \notin DOMAIN sessions THEN nothing
        ELSE IF cseq = ""
          THEN Outcome(sessions, bound, acksSent, <<>>, <<>>, "ValueError", sessions[c])
        ELSE IF 100 <= status /\ status < 200
          THEN Outcome(sessions, bound, acksSent, <<>>,
                       IF status = 180 THEN <<Frame("CALL_IGNORE", c)>> ELSE <<>>,
                       "none", sessions[c])
        ELSE IF status = 200
          THEN IF cseq = "INVITE" THEN OnSendAck(c, rawBody, bindOk, greeting, saveOk)
               ELSE IF cseq = "BYE"
                 THEN Outcome(Remove(sessions, c), bound, acksSent, <<>>, <<>>,
                              "none", sessions[c])
               ELSE Outcome(sessions, bound, acksSent, <<>>, <<>>, "none", sessions[c])
        ELSE IF 300 <= status /\ status < 700
          THEN Outcome(Remove(sessions, c), bound, acksSent, <<Response(603)>>,
                       <<>>, "AttributeError", sessions[c])
        ELSE Outcome(sessions, bound, acksSent, <<>>, <<>>, "none", sessions[c])

(***************************************************************************)
(* RelayServer._handle_call: the session takes a pair from its own         *)
(* allocator and keeps the receive port as both of its local ports.        *)
(***************************************************************************)
OnCall(u, sendOk) ==
    LET a == AllocatePair(NewSession.alloc)
        s == [NewSession EXCEPT !.alloc = a.alloc,
                                !.local_send_port = a.recv_port,
                                !.local_recv_port = a.recv_port]
    IN  IF ~a.ok
          THEN Outcome(sessions, bound, acksSent, <<>>, <<>>, "none", NewSession)
        ELSE IF ~sendOk
          THEN Outcome(sessions, bound, acksSent, <<>>, <<>>, "none",
                       [s EXCEPT !.alloc = ReleasePair(@, a.send_port, a.recv_port)])
        ELSE Outcome(Put(sessions, u, s), bound, acksSent, <<InviteRequest>>, <<>>,
                     "none", s)

(***************************************************************************)
(* The listener loop: one message at a time                                *)
(***************************************************************************)
Handled(op, c, offer, status, cseq, o) ==
    /\ steps < MaxSteps
    /\ steps' = steps + 1
    /\ sessions' = o.sessions
    /\ bound' = o.bound
    /\ acksSent' = o.acks
    /\ last' = [op |-> op, cid |-> c, known |-> c \in DOMAIN sessions,
                offer |-> offer, status |-> status, cseq |-> cseq,
                sip |-> o.sip, ws |-> o.ws, exc |-> o.exc, obj |-> o.obj]

\* The INVITEs of the peer together with what the host does at the bind.
\* The From header and the bind only matter for an offer that from_sdp
\* takes, so the other offers come with one value of each.
InviteInputs ==
    {m \in [body : InviteBodies, hasFrom : BOOLEAN, bindOk : BOOLEAN] :
        \/ FromSdp(ParsedBody(m.body).sdp).raised = "none" /\ m.body.kind = "sdp"
        \/ m.hasFrom /\ m.bindOk}

\* an inbound INVITE; a new dialog comes with a Call-ID of the peer (of the
\* Call-IDs no dialog has, the first: which one the peer picks makes no
\* difference)
HandleInvite ==
    \E c \in {v \in CallIds : v = "c1" \/ "c1" \in DOMAIN sessions} \cup DOMAIN sessions,
       m \in InviteInputs :
        /\ Handled("INVITE", c, m.body, 0, "", OnInvite(c, m.body, m.hasFrom, m.bindOk))
        /\ UNCHANGED uuids

HandleAck ==
    \E c \in AllIds, greeting \in BOOLEAN :
        /\ Handled("ACK", c, NoBody, 0, "", OnAck(c, greeting))
        /\ UNCHANGED uuids

HandleBye ==
    \E c \in AllIds, saveOk \in BOOLEAN :
        /\ Handled("BYE", c, NoBody, 0, "", OnBye(c, saveOk))
        /\ UNCHANGED uuids

HandleCancel ==
    \E c \in AllIds :
        /\ Handled("CANCEL", c, NoBody, 0, "", OnCancel(c))
        /\ UNCHANGED uuids

\* _handle_request: a request without Call-ID, whatever its method
HandleNoCallId ==
    /\ Handled("request", NoCallId, NoBody, 0, "",
               Outcome(sessions, bound, acksSent, <<Response(400)>>, <<>>, "none",
                       NewSession))
    /\ UNCHANGED uuids

\* _handle_request: a method other than INVITE, ACK, BYE and CANCEL
HandleOtherMethod ==
    \E c \in AllIds :
        /\ Handled("OPTIONS", c, NoBody, 0, "",
                   Outcome(sessions, bound, acksSent, <<Response(501)>>, <<>>, "none",
                           NewSession))
        /\ UNCHANGED uuids

\* message_handler: the parser raises and the datagram is dropped
DropUnparsable ==
    /\ Handled("unparsable", NoCallId, NoBody, 0, "",
               Outcome(sessions, bound, acksSent, <<>>, <<>>, "none", NewSession))
    /\ UNCHANGED uuids

\* The responses of the peer.  The body is looked at for a 200 to INVITE
\* only: the bind and the greeting file when it is SDP, the saving of the
\* recording when it is not.
ResponseInputs ==
    {m \in [status : Statuses, cseq : CSeqMethods, body : AnswerBodies,
            bindOk : BOOLEAN, greeting : BOOLEAN, saveOk : BOOLEAN] :
        IF m.status = 200 /\ m.cseq = "INVITE"
          THEN IF m.body = NoBody THEN m.bindOk /\ m.greeting
                                  ELSE m.saveOk
          ELSE m.body = NoBody /\ m.bindOk /\ m.greeting /\ m.saveOk}

HandleResponse ==
    \E c \in AllIds \cup {NoCallId}, m \in ResponseInputs :
        /\ Handled("response", c, m.body, m.status, m.cseq,
                   OnResponse(c, m.status, m.cseq, m.body, m.bindOk, m.greeting,
                              m.saveOk))
        /\ UNCHANGED uuids

\* ws_message_handler, CALL: uuid4 gives a Call-ID never seen before (the
\* Call-IDs of Uuids are taken in their order: which fresh one comes makes
\* no difference)
HandleCall ==
    \E u \in {v \in Uuids \ uuids : v = "u1" \/ "u1" \in uuids}, sendOk \in BOOLEAN :
        /\ Handled("CALL", u, NoBody, 0, "", OnCall(u, sendOk))
        /\ uuids' = uuids \cup {u}

\* ws_message_handler, every other command: RTP and BYE are logged, and so
\* is HANGUP, which falls to `case _`
OtherCommands == {"ws_RTP", "ws_BYE", "ws_HANGUP"}

HandleOtherCommand ==
    \E cmd \in OtherCommands :
        /\ Handled(cmd, NoCallId, NoBody, 0, "",
                   Outcome(sessions, bound, acksSent, <<>>, <<>>, "none", NewSession))
        /\ UNCHANGED uuids

(***************************************************************************)
(* The RTP threads of the dialogs                                          *)
(***************************************************************************)
\* RTPReceiver._recv_loop: a packet of the peer is buffered
RtpReceive ==
    \E c \in DOMAIN sessions :
        /\ sessions[c].rtp.rcv_running
        /\ sessions[c].rtp.sock_open
        /\ sessions[c].rtp.recv_buffer < MaxRecv
        /\ sessions' = [sessions EXCEPT ![c].rtp.recv_buffer = @ + 1]
        /\ UNCHANGED <<bound, acksSent, uuids, last, steps>>

\* RTPSender._send_loop: a queued payload is taken and sent; sendto on a
\* closed socket raises and ends the thread
RtpSend ==
    \E c \in DOMAIN sessions :
        /\ sessions[c].rtp.snd_running
        /\ sessions[c].rtp.snd_thread = "alive"
        /\ sessions[c].rtp.send_queue > 0
        /\ sessions' = [sessions EXCEPT
                          ![c].rtp.send_queue = @ - 1,
                          ![c].rtp.snd_thread =
                              IF sessions[c].rtp.sock_open THEN @ ELSE "dead"]
        /\ UNCHANGED <<bound, acksSent, uuids, last, steps>>

NoLast == [op |-> "none", cid |-> NoCallId, known |-> FALSE,
           offer |-> NoBody, status |-> 0, cseq |-> "", sip |-> <<>>,
           ws |-> <<>>, exc |-> "none", obj |-> NewSession]

(***************************************************************************)
(* WebsocketServer (helper/ws_helper.py): the control channel.  Every      *)
(* connection gets a handler thread of its own, which runs a recv_loop and *)
(* a send_loop thread for it; the two queues and the running flag belong   *)
(* to the one WebsocketServer object.                                      *)
(***************************************************************************)
Clients == {"a", "b"}
NoClient == ""

\* what a client may send
GoodCall == "CALL:0903383638"
ClientFrames == {GoodCall, "HANGUP", "CALL:abc", "FOO"}

\* WSCommandHelper.parser: the pattern, then the match on the prefix
ParserRaises(f) ==
    IF f \notin {GoodCall, "CALL:abc", "HANGUP"} THEN TRUE   \* no command found
    ELSE IF f = "CALL:abc" THEN TRUE                      \* invalid phone number
    ELSE FALSE

\* queue.Queue.get: the oldest item
QueueGet(q) == [item |-> Head(q), rest |-> Tail(q)]

\* queue.Queue.put on a queue made by queue.Queue(): maxsize is 0, the
\* queue is never full and put neither blocks nor drops
QueuePut(q, item) == Append(q, item)

NoConn == [state |-> "none", recv |-> "none", send |-> "none", handler |-> "none",
           held |-> 0, late |-> FALSE, delivered |-> <<>>, rejected |-> FALSE,
           stale |-> FALSE]

\* WebsocketServer.__init__
InitWs ==
    /\ wsRunning = FALSE
    /\ wsSendQ = <<>>
    /\ wsRecvQ = <<>>
    /\ conns = [k \in Clients |-> NoConn]
    /\ wsEnqueued = 0
    /\ wsLatest = NoClient
    /\ wsSent = 0
    /\ wsWire = <<>>

\* handler, up to recv_thread.join(): a client has connected
WsConnect(k) ==
    /\ conns[k].state = "none"
    /\ wsRunning' = TRUE
    /\ conns' = [conns EXCEPT ![k] = [NoConn EXCEPT !.state = "open",
                                                     !.recv = "alive",
                                                     !.send = "while",
                                                     !.handler = "joinRecv"]]
    /\ wsLatest' = k
    /\ UNCHANGED <<wsSendQ, wsRecvQ, wsEnqueued, wsSent, wsWire>>

\* recv_loop: one frame of the client; an exception of the parser leaves
\* the for loop
WsClientFrame(k, f) ==
    /\ conns[k].state = "open" /\ conns[k].recv = "alive"
    /\ wsSent < MaxCmds
    /\ wsSent' = wsSent + 1
    /\ IF ParserRaises(f)
         THEN /\ conns' = [conns EXCEPT ![k].recv = "dead", ![k].rejected = TRUE]
              /\ UNCHANGED wsRecvQ
         ELSE /\ wsRecvQ' = QueuePut(wsRecvQ, f)
              /\ UNCHANGED conns
    /\ UNCHANGED <<wsRunning, wsSendQ, wsEnqueued, wsLatest, wsWire>>

\* recv_loop: the client has closed the connection, the iteration ends
WsClientClose(k) ==
    /\ conns[k].state = "open"
    /\ conns' = [conns EXCEPT ![k].state = "closed",
                              ![k].recv = IF @ = "alive" THEN "dead" ELSE @]
    /\ UNCHANGED <<wsRunning, wsSendQ, wsRecvQ, wsEnqueued, wsLatest, wsSent, wsWire>>

\* handler: recv_thread.join() has returned; self.running = False
WsHandlerJoinRecv(k) ==
    /\ conns[k].handler = "joinRecv" /\ conns[k].recv = "dead"
    /\ wsRunning' = FALSE
    /\ conns' = [conns EXCEPT ![k].handler = "joinSend"]
    /\ UNCHANGED <<wsSendQ, wsRecvQ, wsEnqueued, wsLatest, wsSent, wsWire>>

\* handler: send_thread.join() has returned; the handler returns and the
\* connection is closed
WsHandlerJoinSend(k) ==
    /\ conns[k].handler = "joinSend" /\ conns[k].send = "dead"
    /\ conns' = [conns EXCEPT ![k].handler = "done", ![k].state = "closed"]
    /\ UNCHANGED <<wsRunning, wsSendQ, wsRecvQ, wsEnqueued, wsLatest, wsSent, wsWire>>

\* send_loop: the test of `while self.running`
WsSendLoopTest(k) ==
    /\ conns[k].send = "while"
    /\ conns' = [conns EXCEPT ![k].send = IF wsRunning THEN "get" ELSE "dead"]
    /\ UNCHANGED <<wsRunning, wsSendQ, wsRecvQ, wsEnqueued, wsLatest, wsSent, wsWire>>

\* send_loop: self.send_queue.get(timeout=1.0); queue.Empty goes round
WsSendLoopGet(k) ==
    /\ conns[k].send = "get"
    /\ IF wsSendQ = <<>>
         THEN /\ conns' = [conns EXCEPT ![k].send = "while"]
              /\ UNCHANGED wsSendQ
         ELSE /\ conns' = [conns EXCEPT ![k].send = "send",
                                        ![k].held = QueueGet(wsSendQ).item,
                                        ![k].late = k # wsLatest]
              /\ wsSendQ' = QueueGet(wsSendQ).rest
    /\ UNCHANGED <<wsRunning, wsRecvQ, wsEnqueued, wsLatest, wsSent, wsWire>>

\* send_loop: websocket.send(str(message)); on a closed connection it
\* raises and the loop breaks
WsSendLoopSend(k) ==
    /\ conns[k].send = "send"
    /\ IF conns[k].state = "open"
         THEN /\ conns' = [conns EXCEPT ![k].send = "while", ![k].held = 0,
                                        ![k].late = FALSE,
                                        ![k].delivered = Append(@, conns[k].held),
                                        ![k].stale = @ \/ conns[k].late]
              /\ wsWire' = Append(wsWire, conns[k].held)
         ELSE /\ conns' = [conns EXCEPT ![k].send = "dead", ![k].held = 0,
                                        ![k].late = FALSE]
              /\ UNCHANGED wsWire
    /\ UNCHANGED <<wsRunning, wsSendQ, wsRecvQ, wsEnqueued, wsLatest, wsSent>>

\* send_message: the frames are numbered in the order they are enqueued
WsSendMessage ==
    /\ wsEnqueued' = wsEnqueued + 1
    /\ wsSendQ' = QueuePut(wsSendQ, wsEnqueued + 1)
    /\ UNCHANGED <<wsRunning, wsRecvQ, conns, wsLatest, wsSent, wsWire>>

\* get_message
WsGetMessage ==
    /\ wsRecvQ' = IF wsRecvQ = <<>> THEN wsRecvQ ELSE QueueGet(wsRecvQ).rest
    /\ UNCHANGED <<wsRunning, wsSendQ, conns, wsEnqueued, wsLatest, wsSent, wsWire>>

(***************************************************************************)
(* RTPPacket (model/rtp.py).  A datagram is a sequence of bytes; the bit    *)
(* operations of pack and unpack are computed on the integers.             *)
(***************************************************************************)
Bytes == 0..255

RECURSIVE BitOr(_, _)
\* a | b
BitOr(a, b) ==
    IF a = 0 THEN b
    ELSE IF b = 0 THEN a
    ELSE 2 * BitOr(a \div 2, b \div 2) + (IF a % 2 = 1 \/ b % 2 = 1 THEN 1 ELSE 0)

\* int(flag)
BoolInt(flag) == IF flag THEN 1 ELSE 0

\* struct "H" and "I", network byte order
PackH(n) == <<n \div 256, n % 256>>
PackI(x) == PackH(x.hi) \o PackH(x.lo)
UnpackH(data, i) == 256 * data[i] + data[i + 1]
UnpackI(data, i) == U32(UnpackH(data, i), UnpackH(data, i + 2))

\* PayloadType
PayloadTypes == {0, 8}

\* the dataclass with its defaults
DefaultPacket ==
    [version |-> 2, padding |-> FALSE, extension |-> FALSE, csrc_count |-> 0,
     marker |-> FALSE, payload_type |-> 8, sequence |-> 0,
     timestamp |-> U32(0, 0), ssrc |-> U32(0, 0), payload |-> <<>>]

\* pack with the low byte of the sequence first
PackLittleEndian(p) ==
    LET b0 == BitOr(BitOr(BitOr(p.version * 64, BoolInt(p.padding) * 32),
                          BoolInt(p.extension) * 16), p.csrc_count)
        b1 == BitOr(BoolInt(p.marker) * 128, p.payload_type)
    IN  IF \/ b0 \notin Bytes \/ b1 \notin Bytes
           \/ p.sequence \notin 0..(SeqModulus - 1)
           \/ p.timestamp.hi \notin 0..(SeqModulus - 1)
           \/ p.ssrc.hi \notin 0..(SeqModulus - 1)
          THEN [raised |-> "struct.error", data |-> <<>>]
          ELSE [raised |-> "none",
                data |-> <<b0, b1>> \o <<p.sequence % 256, p.sequence \div 256>>
                         \o PackI(p.timestamp) \o PackI(p.ssrc) \o p.payload]

\* RTPPacket.pack
Pack(p) ==
    LET b0 == BitOr(BitOr(BitOr(p.version * 64, BoolInt(p.padding) * 32),
                          BoolInt(p.extension) * 16), p.csrc_count)
        b1 == BitOr(BoolInt(p.marker) * 128, p.payload_type)
    IN  IF \/ b0 \notin Bytes \/ b1 \notin Bytes
           \/ p.sequence \notin 0..(SeqModulus - 1)
           \/ p.timestamp.hi \notin 0..(SeqModulus - 1)
           \/ p.ssrc.hi \notin 0..(SeqModulus - 1)
          THEN [raised |-> "struct.error", data |-> <<>>]
          ELSE [raised |-> "none",
                data |-> <<b0, b1>> \o PackH(p.sequence)
                         \o PackI(p.timestamp) \o PackI(p.ssrc) \o p.payload]

\* RTPPacket.unpack
Unpack(data) ==
    IF Len(data) < 12
      THEN [raised |-> "ValueError", packet |-> DefaultPacket]
      ELSE LET b0 == data[1]
               b1 == data[2]
           IN  IF (b1 % 128) \notin PayloadTypes
                 THEN [raised |-> "ValueError", packet |-> DefaultPacket]
                 ELSE [raised |-> "none",
                       packet |-> [version      |-> (b0 \div 64) % 4,
                                   padding      |-> (b0 \div 32) % 2 = 1,
                                   extension    |-> (b0 \div 16) % 2 = 1,
                                   csrc_count   |-> b0 % 16,
                                   marker       |-> (b1 \div 128) % 2 = 1,
                                   payload_type |-> b1 % 128,
                                   sequence     |-> UnpackH(data, 3),
                                   timestamp    |-> UnpackI(data, 5),
                                   ssrc         |-> UnpackI(data, 9),
                                   payload      |-> SubSeq(data, 13, Len(data))]]

\* one packet taken through pack and unpack
Edge16 == {0, 258, SeqModulus - 1}
Edge32 == {U32(0, 0), U32(258, 772), U32(SeqModulus - 1, SeqModulus - 1)}
CodecPayloads == {<<>>, <<0, 255>>, [i \in 1..MaxPayload |-> (7 * i) % 256]}
CodecPackets ==
    {[version |-> 2, padding |-> f[1], extension |-> f[2], csrc_count |-> cc,
      marker |-> f[3], payload_type |-> pt, sequence |-> sq, timestamp |-> ts,
      ssrc |-> sr, payload |-> pl] :
        f \in BOOLEAN \X BOOLEAN \X BOOLEAN, cc \in {0, 15}, pt \in PayloadTypes,
        sq \in Edge16, ts \in Edge32, sr \in {U32(0, 0), U32(SeqModulus - 1, 1)},
        pl \in CodecPayloads}

NoCodec == [pc |-> "new", p |-> DefaultPacket, raised |-> "none", data |-> <<>>,
            q |-> DefaultPacket]

InitCodec == \E p \in CodecPackets : codec = [NoCodec EXCEPT !.p = p]

CodecPack ==
    /\ codec.pc = "new"
    /\ LET r == Pack(codec.p)
       IN  codec' = [codec EXCEPT !.pc = IF r.raised = "none" THEN "packed" ELSE "failed",
                                  !.raised = r.raised, !.data = r.data]

CodecUnpack ==
    /\ codec.pc = "packed"
    /\ LET r == Unpack(codec.data)
       IN  codec' = [codec EXCEPT !.pc = IF r.raised = "none" THEN "unpacked" ELSE "failed",
                                  !.raised = r.raised, !.q = r.packet]

InitCodecIdle == codec = NoCodec

(***************************************************************************)
(* Control frames (model/ws_command.py, helper/ws_command.py).  A text is  *)
(* kept as the list of its fields between colons: "BYE" is <<"BYE">>,      *)
(* "RTP:8##d5" is <<"RTP", "8##d5">>, "BYE:" is <<"BYE", "">>.  A content   *)
(* is the list of the fields of its text, <<>> for None.                   *)
(***************************************************************************)
\* CommandType
CommandTypes == {"CALL", "RTP", "CALL_ANS", "CALL_IGNORE", "HANGUP", "BYE",
                 "RING_ANS", "RING_IGNORE"}

\* the alternatives of WSCommandHelper.pattern
PatternTags == {"CALL", "ANS", "RING_ANS", "RTP", "CALL_ANS", "CALL_IGNORE",
                "HANGUP", "BYE"}

\* texts the phone pattern ^\+?\d{7,15}$ matches
PhoneNumbers == {"0903383638"}

NoCommand == [type |-> "", content |-> <<>>]
Command(type, content) == [type |-> type, content |-> content]

\* `if self.content`: None and the empty text are false
Truthy(content) == content # <<>> /\ content # <<"">>

\* WebSocketCommand.__str__
Str(cmd) == IF Truthy(cmd.content) THEN <<cmd.type>> \o cmd.content ELSE <<cmd.type>>

ParserResult(raised, cmd) == [raised |-> raised, cmd |-> cmd]

\* `_, x = raw_command.split(":")`: exactly two fields, or ValueError
SplitTwo(type, text) ==
    IF Len(text) = 2 THEN ParserResult("none", Command(type, <<text[2]>>))
    ELSE ParserResult("ValueError", NoCommand)

\* WSCommandHelper.parser: the pattern wants one of its tags, alone or
\* followed by a colon and at least one character; the cases are tried in
\* the order of the code (no tag of the pattern starts with another tag a
\* case tests for, so startswith(tag) is equality on the first field)
Parser(text) ==
    IF \/ text[1] \notin PatternTags
       \/ Len(text) = 2 /\ text[2] = ""
      THEN ParserResult("Exception", NoCommand)
    ELSE IF text[1] = "CALL" /\ Len(text) >= 2
      THEN IF Len(text) # 2 THEN ParserResult("ValueError", NoCommand)
           ELSE IF text[2] \notin PhoneNumbers THEN ParserResult("ValueError", NoCommand)
           ELSE ParserResult("none", Command("CALL", <<text[2]>>))
    ELSE IF text[1] = "RTP" /\ Len(text) >= 2 THEN SplitTwo("RTP", text)
    ELSE IF text[1] = "BYE" THEN SplitTwo("BYE", text)
    ELSE IF text[1] = "CALL_ANS" THEN SplitTwo("CALL_ANS", text)
    ELSE IF text[1] = "CALL_IGNORE" THEN SplitTwo("CALL_IGNORE", text)
    ELSE IF text[1] = "HANGUP" THEN ParserResult("none", Command("HANGUP", <<>>))
    ELSE IF text[1] = "RING_ANS" THEN SplitTwo("RING_ANS", text)
    ELSE IF text[1] = "RING_IGNORE" THEN SplitTwo("RING_IGNORE", text)
    ELSE ParserResult("Exception", NoCommand)

\* the contents the relay and its clients give their commands: none, a
\* phone number, a Call-ID, a caller taken from a From header without a
\* display name, a payload type with the payload in hex
Contents == {<<>>, <<"0903383638">>, <<"c1">>, <<"<sip", "1001@203.0.113.7>;tag=1">>,
             <<"8##d5d5">>}

\* the frames _handle_response, _handle_invite, _handle_send_ack,
\* _handle_bye, _handle_cancel and _recv_loop build
ServerCommands ==
    {Command("CALL_IGNORE", <<"c1">>), Command("RING_ANS", <<"0903383638">>),
     Command("RING_ANS", <<"<sip", "1001@203.0.113.7>;tag=1">>),
     Command("CALL_ANS", <<>>), Command("BYE", <<>>), Command("RING_IGNORE", <<>>),
     Command("RTP", <<"8##d5d5">>)}

NoFraming == [pc |-> "new", cmd |-> NoCommand, text |-> <<>>, raised |-> "none",
              back |-> NoCommand]

InitFraming ==
    \E type \in CommandTypes, content \in Contents :
        framing = [NoFraming EXCEPT !.cmd = Command(type, content)]

\* send_loop: websocket.send(str(message))
FramingStr ==
    /\ framing.pc = "new"
    /\ framing' = [framing EXCEPT !.pc = "sent", !.text = Str(framing.cmd)]

\* the peer: ws_cmd.parser(str(message))
FramingParse ==
    /\ framing.pc = "sent"
    /\ LET r == Parser(framing.text)
       IN  framing' = [framing EXCEPT !.pc = "parsed", !.raised = r.raised,
                                      !.back = r.cmd]

InitFramingIdle == framing = NoFraming

(***************************************************************************)
(* One RTPReceiver (helper/rtp_handler.py) with its thread.                *)
(***************************************************************************)
\* RTPReceiver.__init__
NewStats == [total_packets |-> 0, total_bytes |-> 0, lost_packets |-> 0,
             last_sequence |-> -1]

\* took records the datagram of the last pass of the loop and what the
\* object held before it
NewReceiver == [running |-> FALSE, thread |-> "none", queue |-> <<>>,
                recv_buffer |-> 0, raised |-> "none", stats |-> NewStats,
                number_of_packets |-> 0,
                took |-> [data |-> <<>>, recv_buffer |-> 0, queued |-> 0,
                          stats |-> NewStats]]

\* RTPReceiver._update_stats
UpdateStats(stats, packet) ==
    LET expected_seq == (stats.last_sequence + 1) % SeqModulus
        lost == IF packet.sequence > expected_seq
                  THEN packet.sequence - expected_seq
                  ELSE (SeqModulus - 1 - expected_seq) + packet.sequence + 1
    IN  [stats EXCEPT !.total_packets = @ + 1,
                      !.total_bytes = @ + Len(packet.payload),
                      !.lost_packets = IF /\ stats.last_sequence >= 0
                                          /\ packet.sequence # expected_seq
                                         THEN @ + lost ELSE @,
                      !.last_sequence = packet.sequence]

\* RTPReceiver.start
ReceiverStart ==
    /\ receiver' = IF receiver.running \/ receiver.thread = "alive"
                     THEN [receiver EXCEPT !.raised = "RuntimeError"]
                     ELSE [receiver EXCEPT !.running = TRUE, !.thread = "alive",
                                           !.raised = "none"]
    /\ UNCHANGED wsVars

\* RTPReceiver.stop
ReceiverStop ==
    /\ receiver.running
    /\ receiver' = [receiver EXCEPT !.running = FALSE]
    /\ UNCHANGED wsVars

\* _recv_loop: a pass in which recvfrom returns a datagram.  A datagram
\* unpack raises ValueError for is logged and dropped; of any other the
\* payload is buffered, the packet queued, counted and published on the
\* control channel
RecvLoopPacket(data) ==
    /\ receiver.thread = "alive" /\ receiver.running
    /\ LET r == Unpack(data)
           seen == [receiver EXCEPT !.number_of_packets = @ + 1,
                                    !.took = [data |-> data,
                                              recv_buffer |-> receiver.recv_buffer,
                                              queued |-> Len(receiver.queue),
                                              stats |-> receiver.stats]]
       IN  IF r.raised # "none"
             THEN /\ receiver' = seen
                  /\ UNCHANGED wsVars
             ELSE /\ receiver' = [seen EXCEPT
                                     !.recv_buffer = @ + 1,
                                     !.queue = QueuePut(@, receiver.recv_buffer + 1),
                                     !.stats = UpdateStats(@, r.packet)]
                  /\ WsSendMessage

\* the datagrams of a far end that sends its packets in order
InOrderDatagram ==
    Pack([DefaultPacket EXCEPT
            !.sequence = (receiver.stats.last_sequence + 1) % SeqModulus]).data

\* the datagrams of SpecRx: packets of version 2 with sequence numbers
\* around the wrap, datagrams of other versions, with an unknown payload
\* type, and datagrams too short for a header
RxSequences == {0, 1, 4, SeqModulus - 2, SeqModulus - 1}
Datagrams ==
    {Pack([DefaultPacket EXCEPT !.sequence = sq, !.payload = <<213>>]).data :
        sq \in RxSequences}
    \cup {Pack([DefaultPacket EXCEPT !.version = v, !.sequence = 1]).data : v \in {0, 1, 3}}
    \cup {Pack([DefaultPacket EXCEPT !.payload_type = 96]).data,
          SubSeq(Pack(DefaultPacket).data, 1, 11),
          <<>>}

\* _recv_loop: recvfrom times out after a second and the loop tests
\* self._running again
RecvLoopTimeout ==
    /\ receiver.thread = "alive"
    /\ receiver' = [receiver EXCEPT !.thread = IF receiver.running THEN @ ELSE "dead"]
    /\ UNCHANGED wsVars

(***************************************************************************)
(* The media bridge (call_center.py): one client of the control channel,   *)
(* reading the frames of the relay one at a time.  inbox holds the frames  *)
(* the connection has received and the loop has not yet taken.             *)
(***************************************************************************)
NoCall == ""
FrameKinds == {"CALL_ANS", "BYE", "speech", "nonspeech", "other"}
PipelineOutcomes == {"ok", "hex2wav", "stt", "llm", "tts", "send"}

\* RTPSession.__init__ and the locals of main; silence, cutSilence, outcome
\* and lateBuffered record what the loop has seen and done
NewBridge == [alive |-> TRUE, pc |-> "recv", call_id |-> NoCall, buffer |-> 0,
              silence |-> 0, cutSilence |-> 0, outcome |-> "none",
              lateBuffered |-> FALSE]

\* handle_bye: a log line; the session keeps its call_id and its buffer
handle_bye(b) == b

\* handle_ans: session.clear() and the new call_id
handle_ans(b) == [b EXCEPT !.buffer = 0, !.call_id = "c1"]

\* the history of SpecCalls: phase tells whether the last of CALL_ANS and
\* BYE the loop handled was a CALL_ANS ("call"), a BYE ("ended") or neither
\* has come ("idle"); stray whether a speech frame was buffered outside a
\* call
NoCapture == [phase |-> "idle", stray |-> FALSE]

CaptureTrack ==
    capture' =
      IF bridge.pc = "recv" /\ inbox # <<>> /\ inbox' = Tail(inbox)
        THEN CASE Head(inbox).kind = "CALL_ANS" -> [capture EXCEPT !.phase = "call"]
               [] Head(inbox).kind = "BYE" -> [capture EXCEPT !.phase = "ended"]
               [] OTHER -> [capture EXCEPT
                              !.stray = @ \/ (/\ capture.phase # "call"
                                              /\ bridge'.buffer > bridge.buffer)]
        ELSE capture

\* RTPSession.add_packet: a speech frame is buffered; any other frame cuts
\* the turn once the buffer holds minimum_number_packet frames
AddPacket(buffer, is_speech) ==
    IF is_speech
      THEN [buffer |-> buffer + 1, cut |-> FALSE]
      ELSE [buffer |-> buffer, cut |-> buffer >= MinimumNumberPacket]

\* the except branch and the normal exit of the try in main
FinishTurnUncaught(b, outcome) ==
    IF outcome = "ok"
      THEN [b EXCEPT !.pc = "recv", !.outcome = outcome]
      ELSE [b EXCEPT !.pc = "dead", !.alive = FALSE, !.outcome = outcome]

\* main, the try around the pipeline: an exception of any stage is logged
\* and the buffer cleared; the for loop goes on
FinishTurn(b, outcome) ==
    IF outcome = "ok"
      THEN [b EXCEPT !.pc = "recv", !.outcome = outcome]
      ELSE [b EXCEPT !.pc = "recv", !.outcome = outcome, !.buffer = 0]

\* the connection receives a frame of the relay; a frame that arrives
\* while the loop is inside the pipeline waits in the connection
BridgeArrive(kind) ==
    /\ bridge.alive
    /\ Len(inbox) < MaxInbox
    /\ kind = "speech" => bridge.buffer < MaxBuffer
    /\ inbox' = Append(inbox, [kind |-> kind,
                               late |-> kind = "speech" /\ bridge.pc = "inferring"])
    /\ UNCHANGED bridge

\* main: one pass of `for message in websocket`, up to the call of the
\* pipeline
BridgeTake ==
    /\ bridge.alive /\ bridge.pc = "recv"
    /\ inbox # <<>>
    /\ inbox' = Tail(inbox)
    /\ LET f == Head(inbox)
       IN  CASE f.kind = "CALL_ANS" ->
                  bridge' = handle_ans(bridge)
             [] f.kind = "BYE" ->
                  bridge' = handle_bye(bridge)
             [] f.kind = "other" ->
                  UNCHANGED bridge
             [] f.kind \in {"speech", "nonspeech"} ->
                  IF bridge.call_id = NoCall THEN UNCHANGED bridge
                  ELSE
                    LET r == AddPacket(bridge.buffer, f.kind = "speech")
                        run == IF f.kind = "speech" THEN 0
                               ELSE IF bridge.silence < MaxSilence
                                 THEN bridge.silence + 1 ELSE MaxSilence
                    IN  bridge' =
                          [bridge EXCEPT
                             !.silence = run,
                             !.lateBuffered = @ \/ f.late,
                             !.buffer = IF r.cut THEN 0 ELSE r.buffer,
                             !.cutSilence = IF r.cut THEN run ELSE @,
                             !.pc = IF r.cut THEN "inferring" ELSE @]

\* main: the pipeline returns or raises
BridgeTurnEnd(outcome) ==
    /\ bridge.alive /\ bridge.pc = "inferring"
    /\ bridge' = FinishTurn(bridge, outcome)
    /\ UNCHANGED inbox

InitSrv ==
    /\ sessions = [c \in {} |-> NewSession]
    /\ bound = {}
    /\ acksSent = [c \in AllIds |-> 0]
    /\ uuids = {}
    /\ last = NoLast
    /\ steps = 0

InitFn == InitPoolIdle /\ InitCodecIdle /\ InitFramingIdle

\* the objects of the relay, the control channel and the bridge before
\* anything has run
InitOther ==
    /\ sender = SenderAfter(0)
    /\ emitted = <<>>
    /\ ticks = 0
    /\ barge = NoBarge
    /\ receiver = NewReceiver
    /\ bridge = NewBridge
    /\ inbox = <<>>
    /\ capture = NoCapture
    /\ InitSrv
    /\ InitWs

InitRTP ==
    /\ \E n \in StartCounts : sender = SenderAfter(n)
    /\ emitted = <<>>
    /\ ticks = 0
    /\ barge = NoBarge
    /\ receiver = NewReceiver
    /\ bridge = NewBridge
    /\ inbox = <<>>
    /\ capture = NoCapture
    /\ InitSrv
    /\ InitWs
    /\ InitFn

NextRTP ==
    /\ \/ SenderStart
       \/ SenderStop
       \/ \E p \in Payloads : SendRtpPacket(p)
       \/ SendLoopTest
       \/ SendLoopBody
       \/ UserSpeaks
    /\ UNCHANGED <<srvVars, wsVars, rcvVars, brVars, fnVars>>

SpecRTP == InitRTP /\ [][NextRTP]_vars

\* the sender thread is scheduled: a pass of its loop that can be taken is
\* taken
SpecRTPLive ==
    InitRTP /\ [][NextRTP]_vars /\ WF_rtpVars(SendLoopTest) /\ WF_rtpVars(SendLoopBody)

Init ==
    /\ sender = SenderAfter(0)
    /\ emitted = <<>>
    /\ ticks = 0
    /\ barge = NoBarge
    /\ receiver = NewReceiver
    /\ bridge = NewBridge
    /\ inbox = <<>>
    /\ capture = NoCapture
    /\ InitSrv
    /\ InitWs
    /\ InitFn

Next ==
    /\ \/ HandleInvite
       \/ HandleAck
       \/ HandleBye
       \/ HandleCancel
       \/ HandleNoCallId
       \/ HandleOtherMethod
       \/ DropUnparsable
       \/ HandleResponse
       \/ HandleCall
       \/ HandleOtherCommand
       \/ RtpReceive
       \/ RtpSend
    /\ UNCHANGED <<rtpVars, wsVars, rcvVars, brVars, fnVars>>

Spec == Init /\ [][Next]_vars

NextWS ==
    /\ \/ \E k \in Clients : WsConnect(k)
       \/ \E k \in Clients, f \in ClientFrames : WsClientFrame(k, f)
       \/ \E k \in Clients : WsClientClose(k)
       \/ \E k \in Clients : WsHandlerJoinRecv(k)
       \/ \E k \in Clients : WsHandlerJoinSend(k)
       \/ \E k \in Clients : WsSendLoopTest(k)
       \/ \E k \in Clients : WsSendLoopGet(k)
       \/ \E k \in Clients : WsSendLoopSend(k)
       \/ (wsEnqueued < MaxFrames /\ WsSendMessage)
       \/ WsGetMessage
    /\ UNCHANGED <<rtpVars, srvVars, rcvVars, brVars, fnVars>>

SpecWS == Init /\ [][NextWS]_vars

\* the relay publishes events while no client is connected
NextQ ==
    /\ wsEnqueued < MaxBurst
    /\ WsSendMessage
    /\ UNCHANGED <<rtpVars, srvVars, rcvVars, brVars, fnVars>>

SpecQ == Init /\ [][NextQ]_vars

\* one receiver: its owner starts and stops it, its thread takes the
\* packets of the far end
NextRecv ==
    /\ \/ ReceiverStart
       \/ ReceiverStop
       \/ (receiver.recv_buffer < MaxPackets /\ RecvLoopPacket(InOrderDatagram))
       \/ RecvLoopTimeout
    /\ UNCHANGED <<rtpVars, srvVars, brVars, fnVars>>

SpecRecv == Init /\ [][NextRecv]_vars

\* one receiver and a far end that sends any datagram
NextRx ==
    /\ \/ ReceiverStart
       \/ ReceiverStop
       \/ \E data \in Datagrams :
             receiver.number_of_packets < MaxDatagrams /\ RecvLoopPacket(data)
       \/ RecvLoopTimeout
    /\ UNCHANGED <<rtpVars, srvVars, brVars, fnVars>>

SpecRx == Init /\ [][NextRx]_vars

\* the media bridge and the frames the relay sends it
NextBridge ==
    /\ \/ \E kind \in FrameKinds : BridgeArrive(kind)
       \/ BridgeTake
       \/ \E outcome \in PipelineOutcomes : BridgeTurnEnd(outcome)
    /\ UNCHANGED <<rtpVars, srvVars, wsVars, rcvVars, fnVars, capture>>

SpecBridge == Init /\ [][NextBridge]_vars

\* the media bridge with the history of its calls
NextCalls ==
    /\ \/ \E kind \in FrameKinds : BridgeArrive(kind)
       \/ BridgeTake
       \/ \E outcome \in PipelineOutcomes : BridgeTurnEnd(outcome)
    /\ CaptureTrack
    /\ UNCHANGED <<rtpVars, srvVars, wsVars, rcvVars, fnVars>>

SpecCalls == Init /\ [][NextCalls]_vars

\* one allocator and its caller
NextPool ==
    /\ \/ PoolAllocate
       \/ \E i \in 1..Len(issued) : PoolRelease(i)
    /\ UNCHANGED <<rtpVars, srvVars, wsVars, rcvVars, brVars, codec, framing>>

InitPoolOnly == InitOther /\ InitPool /\ InitCodecIdle /\ InitFramingIdle

SpecPool == InitPoolOnly /\ [][NextPool]_vars

\* one packet packed and unpacked
NextCodec ==
    /\ \/ CodecPack
       \/ CodecUnpack
    /\ UNCHANGED <<rtpVars, srvVars, wsVars, rcvVars, brVars, poolVars, framing>>

InitCodecOnly == InitOther /\ InitPoolIdle /\ InitCodec /\ InitFramingIdle

SpecCodec == InitCodecOnly /\ [][NextCodec]_vars

\* one command written to the wire and parsed by the peer
NextFraming ==
    /\ \/ FramingStr
       \/ FramingParse
    /\ UNCHANGED <<rtpVars, srvVars, wsVars, rcvVars, brVars, poolVars, codec>>

InitFramingOnly == InitOther /\ InitPoolIdle /\ InitCodecIdle /\ InitFraming

SpecFraming == InitFramingOnly /\ [][NextFraming]_vars

(***************************************************************************)
(* C1: any two consecutive packets of the sender loop have sequence        *)
(* numbers one apart modulo 2^16 and timestamps 160 apart modulo 2^32.     *)
(***************************************************************************)
ConsecutivePackets ==
    Len(emitted) = 2 =>
        LET p == emitted[1]
            q == emitted[2]
            carry == IF p.timestamp.lo + SamplesPerPacket >= SeqModulus THEN 1 ELSE 0
        IN  /\ q.sequence \in 0 .. (SeqModulus - 1)
            /\ (q.sequence - p.sequence - 1) % SeqModulus = 0
            /\ q.timestamp.lo = p.timestamp.lo + SamplesPerPacket - carry * SeqModulus
            /\ q.timestamp.hi \in 0 .. (SeqModulus - 1)
            /\ (q.timestamp.hi - p.timestamp.hi - carry) % SeqModulus = 0

\* the sequence number and the timestamp wrap between the same two packets
WrapsBoth ==
    /\ Len(emitted) = 2
    /\ emitted[1].sequence = SeqModulus - 1
    /\ emitted[2].sequence = 0
    /\ emitted[1].timestamp = U32(SeqModulus - 1, SeqModulus - SamplesPerPacket)
    /\ emitted[2].timestamp = U32(0, 0)


(***************************************************************************)
(* Properties of the RelayServer                                           *)
(***************************************************************************)
HandlerStep == steps' = steps + 1
PortPair(s) == <<s.local_send_port, s.local_recv_port>>
EngineStopped(s) == ~s.rtp.snd_running /\ ~s.rtp.rcv_running /\ ~s.rtp.sock_open
Emitted(ws, type) == \E i \in 1 .. Len(ws) : ws[i].type = type
FinalResponses(sip) ==
    {i \in 1 .. Len(sip) : sip[i].kind = "response" /\ sip[i].code >= 200
                                                    /\ sip[i].code <= 699}
OfferedTypes(body) ==
    {body.raw.media[1].pts[i] : i \in 1 .. Len(body.raw.media[1].pts)}

(***************************************************************************)
(* C2: in every reachable state no two dialogs of the dialog table hold    *)
(* the same local port pair (send port, recv port).                        *)
(***************************************************************************)
DistinctPortPairs ==
    \A c, d \in DOMAIN sessions :
        c # d => PortPair(sessions[c]) # PortPair(sessions[d])

TwoOutboundDialogs ==
    /\ {"u1", "u2"} \subseteq DOMAIN sessions
    /\ PortPair(sessions["u1"]) = <<StartPort + 2, StartPort + 2>>
    /\ PortPair(sessions["u2"]) = <<StartPort + 2, StartPort + 2>>

(***************************************************************************)
(* C3: for an outbound dialog at most one ACK is sent, however often the   *)
(* peer sends the 200 OK to the INVITE; a CALL_ANS frame goes out with the *)
(* first ACK only.                                                         *)
(***************************************************************************)
AtMostOneAck ==
    /\ \A c \in AllIds : acksSent[c] <= 1
    /\ (last.op = "response" /\ Emitted(last.ws, "CALL_ANS"))
          => acksSent[last.cid] = 1

SecondAckSent ==
    /\ last.op = "response" /\ last.status = 200 /\ last.cid \in Uuids
    /\ acksSent[last.cid] = 2
    /\ last.sip = <<AckRequest>>
    /\ Emitted(last.ws, "CALL_ANS")

(***************************************************************************)
(* C4: the handling of an inbound INVITE sends exactly one final response  *)
(* (2xx-6xx), whatever branch the handler takes.                           *)
(***************************************************************************)
ExactlyOneFinalResponse ==
    last.op = "INVITE" =>
        /\ Len(last.sip) = 1
        /\ FinalResponses(last.sip) = {1}

InviteFailedInside ==
    /\ last.op = "INVITE" /\ ~last.known
    /\ last.sip = <<Response(500)>>

(***************************************************************************)
(* C5: an INVITE whose Call-ID is in the dialog table is answered with 488 *)
(* and changes neither the table, nor the dialogs' engines and ports, nor  *)
(* the bound sockets, and puts nothing on the control channel.             *)
(***************************************************************************)
ReInviteRejected ==
    [][(HandlerStep /\ last'.op = "INVITE" /\ last'.known) =>
          /\ last'.sip = <<Response(488)>>
          /\ last'.ws = <<>>
          /\ last'.exc = "none"
          /\ sessions' = sessions
          /\ bound' = bound]_vars

ReInviteOnRunningDialog ==
    /\ last.op = "INVITE" /\ last.known
    /\ last.cid \in DOMAIN sessions
    /\ sessions[last.cid].rtp.snd_running
    /\ last.offer = SdpBody(OfferMediaC)

(***************************************************************************)
(* C6: an INVITE with a fresh Call-ID whose offer has a session-level c=   *)
(* line and an audio m= line with 0 8 96 registers a dialog, is answered   *)
(* with 200 OK carrying an SDP answer, and RING_ANS:<caller> is emitted.   *)
(***************************************************************************)
SessionLevelOfferAccepted ==
    (last.op = "INVITE" /\ ~last.known /\ last.offer = SdpBody(OfferSessionC)) =>
        /\ last.cid \in DOMAIN sessions
        /\ Len(last.sip) = 1
        /\ last.sip[1].code = 200
        /\ last.sip[1].sdp # NoSdp
        /\ last.ws = <<Frame("RING_ANS", Caller)>>

SessionLevelOfferFails ==
    /\ last.op = "INVITE" /\ ~last.known /\ last.offer = SdpBody(OfferSessionC)
    /\ last.sip = <<Response(500)>>
    /\ last.cid \notin DOMAIN sessions

(***************************************************************************)
(* C7: when an inbound INVITE is accepted, the payload type of the answer  *)
(* and the codec of the dialog's engine are PCMA (8) if the offer lists 8, *)
(* else PCMU (0) if it lists 0; an offer that lists neither is answered    *)
(* with 488 and no dialog is made.                                         *)
(***************************************************************************)
CodecNegotiated ==
    (/\ last.op = "INVITE" /\ ~last.known
     /\ last.offer.kind = "sdp" /\ last.offer.raw.wellFormed
     /\ last.offer.raw.media # <<>>) =>
        LET pts == OfferedTypes(last.offer)
            accepted == Len(last.sip) = 1 /\ last.sip[1].code = 200
        IN  IF 8 \in pts
              THEN accepted => /\ last.sip[1].sdp.m_pt = 8
                               /\ last.sip[1].sdp.rtpmap_codec = "PCMA"
                               /\ last.obj.rtp.audio_codec = "PCMA"
            ELSE IF 0 \in pts
              THEN accepted => /\ last.sip[1].sdp.m_pt = 0
                               /\ last.sip[1].sdp.rtpmap_codec = "PCMU"
                               /\ last.obj.rtp.audio_codec = "PCMU"
            ELSE /\ last.sip = <<Response(488)>>
                 /\ last.cid \notin DOMAIN sessions

DynamicTypeAccepted ==
    /\ last.op = "INVITE" /\ ~last.known /\ last.offer = SdpBody(OfferDynamic)
    /\ last.sip[1].code = 200
    /\ last.sip[1].sdp.m_pt = 96
    /\ last.cid \in DOMAIN sessions

(***************************************************************************)
(* C8: once the engine of an inbound dialog runs (its first ACK has been   *)
(* handled), a further ACK for the Call-ID changes nothing of the dialog,  *)
(* of its sender, receiver and send queue, and raises no error.            *)
(***************************************************************************)
DuplicateAckIdempotent ==
    [][(/\ HandlerStep /\ last'.op = "ACK" /\ last'.known
        /\ last'.cid \in CallIds
        /\ sessions[last'.cid].rtp.rcv_running) =>
          /\ sessions' = sessions
          /\ last'.exc = "none"]_vars

DuplicateAckRaises ==
    /\ last.op = "ACK" /\ last.known /\ last.cid \in CallIds
    /\ last.exc = "RuntimeError"
    /\ last.obj.rtp.snd_running /\ last.obj.rtp.rcv_running

(***************************************************************************)
(* C9: after a BYE for a Call-ID of the dialog table has been handled, the *)
(* Call-ID is not in the table and the engine of the dialog is stopped,    *)
(* also when the recording cannot be saved and 500 is sent.                *)
(***************************************************************************)
ByeRemovesDialog ==
    (last.op = "BYE" /\ last.known) =>
        /\ last.cid \notin DOMAIN sessions
        /\ EngineStopped(last.obj)

DialogSurvivesFailedBye ==
    /\ last.op = "BYE" /\ last.known
    /\ last.sip = <<Response(500)>>
    /\ last.cid \in DOMAIN sessions
    /\ EngineStopped(sessions[last.cid])

(***************************************************************************)
(* C10: whenever a dialog leaves the dialog table a termination event is   *)
(* put on the control channel: CALL_FAILED when a failure response to an   *)
(* outbound call removed it, BYE in every other case.                      *)
(***************************************************************************)
TerminationEventOnRemoval ==
    [][(DOMAIN sessions \ DOMAIN sessions') # {} =>
          IF last'.op = "response" /\ last'.status >= 300
            THEN Emitted(last'.ws, "CALL_FAILED")
            ELSE Emitted(last'.ws, "BYE")]_vars

DialogRemovedSilently ==
    /\ last.op = "response" /\ last.status = 200 /\ last.known
    /\ last.cid \notin DOMAIN sessions
    /\ last.ws = <<>> /\ last.sip = <<>> /\ last.exc = "none"

\* A dialog counts as established once the ACK of its INVITE has been
\* handled (inbound: the engine was started) or sent (outbound)
DialogEstablished(c) ==
    /\ c \in DOMAIN sessions
    /\ sessions[c].rtp.rcv_running \/ acksSent[c] >= 1

(***************************************************************************)
(* C11: a CANCEL removes the dialog and emits RING_IGNORE only when the    *)
(* dialog exists and is not yet established; otherwise the dialog table    *)
(* and the engines stay as they are and no RING_IGNORE is emitted.         *)
(***************************************************************************)
CancelOnlyBeforeAck ==
    [][(HandlerStep /\ last'.op = "CANCEL") =>
          IF last'.known /\ ~DialogEstablished(last'.cid)
            THEN /\ last'.cid \notin DOMAIN sessions'
                 /\ Emitted(last'.ws, "RING_IGNORE")
            ELSE /\ sessions' = sessions
                 /\ ~Emitted(last'.ws, "RING_IGNORE")]_vars

CancelForUnknownCall ==
    /\ last.op = "CANCEL" /\ ~last.known
    /\ last.ws = <<Frame("RING_IGNORE", "")>>
    /\ last.sip = <<Response(200)>>

(***************************************************************************)
(* C12: a CALL command either sends exactly one INVITE and registers       *)
(* exactly one new dialog, under a Call-ID never used before and with a    *)
(* port pair taken from the allocator, leaving the other dialogs alone; or *)
(* (the send failed) sends nothing, registers nothing and has released the *)
(* pair it took.                                                           *)
(***************************************************************************)
CallRegistersOneDialog ==
    [][(HandlerStep /\ last'.op = "CALL") =>
          LET u == last'.cid
          IN  \/ /\ last'.sip = <<InviteRequest>>
                 /\ u \notin DOMAIN sessions /\ u \notin uuids
                 /\ DOMAIN sessions' = DOMAIN sessions \cup {u}
                 /\ \A c \in DOMAIN sessions : sessions'[c] = sessions[c]
                 /\ sessions'[u].local_recv_port # 0
                 /\ {sessions'[u].local_send_port, sessions'[u].local_recv_port}
                        \subseteq sessions'[u].alloc.allocated
              \/ /\ last'.sip = <<>>
                 /\ sessions' = sessions
                 /\ last'.obj.local_recv_port # 0
                 /\ last'.obj.alloc.allocated = {}]_vars

CallSendFailed ==
    /\ last.op = "CALL" /\ last.sip = <<>>
    /\ last.cid \notin DOMAIN sessions
    /\ last.obj.local_recv_port = StartPort + 2
    /\ last.obj.alloc.allocated = {}
    /\ DOMAIN sessions # {}

\* f"{status_code} {reason}" of the failure responses the peer sends
FailureText(status) == IF status = 486 THEN "486 Busy Here" ELSE "failure"

FailureToInvite ==
    /\ last.op = "response" /\ last.known /\ last.cid \in Uuids
    /\ last.status >= 300 /\ last.status < 700
    /\ last.cseq = "INVITE"

(***************************************************************************)
(* C13: when a 3xx-6xx response to the INVITE of an outbound dialog of the *)
(* table has been handled, exactly one frame went to the control channel:  *)
(* CALL_FAILED with the status code and reason phrase of the response.     *)
(***************************************************************************)
CallFailedEmitted ==
    FailureToInvite => last.ws = <<Frame("CALL_FAILED", FailureText(last.status))>>

FailureRaisesNoFrame ==
    /\ FailureToInvite /\ last.status = 486
    /\ last.ws = <<>>
    /\ last.exc = "AttributeError"
    /\ last.sip = <<Response(603)>>

(***************************************************************************)
(* C14: when a 3xx-6xx response to the INVITE of an outbound dialog has    *)
(* been handled, the dialog is out of the table, the table is one dialog   *)
(* smaller (as large as before the CALL), and the ports of the dialog are  *)
(* no longer in the allocated set of its allocator.                        *)
(***************************************************************************)
FailedCallReleased ==
    [][(HandlerStep /\ FailureToInvite') =>
          /\ last'.cid \notin DOMAIN sessions'
          /\ Cardinality(DOMAIN sessions') = Cardinality(DOMAIN sessions) - 1
          /\ last'.obj.local_send_port \notin last'.obj.alloc.allocated
          /\ last'.obj.local_recv_port \notin last'.obj.alloc.allocated]_vars

FailedCallKeepsPair ==
    /\ FailureToInvite
    /\ last.cid \notin DOMAIN sessions
    /\ last.obj.local_recv_port = StartPort + 2
    /\ last.obj.alloc.allocated = {StartPort, StartPort + 2}

(***************************************************************************)
(* C15: when a HANGUP command is handled while some dialog is established, *)
(* a BYE request is sent to the peer.                                      *)
(***************************************************************************)
HangupSendsBye ==
    [][(/\ HandlerStep /\ last'.op = "ws_HANGUP"
        /\ \E c \in AllIds : DialogEstablished(c)) =>
          \E i \in 1 .. Len(last'.sip) : last'.sip[i].kind = "BYE"]_vars

HangupIgnored ==
    /\ last.op = "ws_HANGUP"
    /\ \E c \in Uuids : DialogEstablished(c) /\ acksSent[c] = 1
    /\ last.sip = <<>> /\ last.ws = <<>> /\ last.exc = "none"

(***************************************************************************)
(* The server left to itself: the sender threads of the engines keep       *)
(* running.  What the peer and the operator send is up to them, and the    *)
(* listener loop has no step of its own besides taking what arrived.       *)
(***************************************************************************)
SpecLive == Init /\ [][Next]_vars /\ WF_vars(RtpSend /\ UNCHANGED <<rtpVars, wsVars, rcvVars, brVars, fnVars>>)

Unanswered(u) == u \in DOMAIN sessions /\ acksSent[u] = 0

(***************************************************************************)
(* C16: an outbound dialog does not stay in the dialog table for ever      *)
(* without an answer to its INVITE: time and again it is out of the table  *)
(* or answered.                                                            *)
(***************************************************************************)
InviteTimesOut == \A u \in Uuids : []<>(~Unanswered(u))

CallWaitsWhileOthersHandled ==
    /\ Unanswered("u1")
    /\ last.op = "BYE" /\ last.cid = "c1" /\ last.known
    /\ steps = MaxSteps

(***************************************************************************)
(* C17.  A control frame outside the grammar (such as CALL:abc) is         *)
(* dropped and nothing else happens: the connection it came on stays open  *)
(* with its receive loop running, so that a later valid command on it is   *)
(* still parsed and put on the inbound queue.  Stated on the connection:   *)
(* as long as the client has not closed it, a connection that had a frame  *)
(* rejected still has its receive loop and the server is still running.    *)
(***************************************************************************)
RejectedFrameKeepsConnection ==
    \A k \in Clients :
        (conns[k].rejected /\ conns[k].state = "open")
            => (conns[k].recv = "alive" /\ conns[k].handler = "joinRecv")

\* a bad frame has ended the receive loop of a connection the client still
\* holds open
RejectedFrameEndsRecvLoop ==
    \E k \in Clients :
        /\ conns[k].rejected
        /\ conns[k].state = "open"
        /\ conns[k].recv = "dead"

(***************************************************************************)
(* C18.  The control channel has at most one active client: a client that  *)
(* connects while another is connected replaces it, so no two connections  *)
(* are served at once, and a frame taken from the outbound queue after the *)
(* second client connected is never delivered to the first.                *)
(***************************************************************************)
Active(k) == conns[k].state = "open" /\ conns[k].handler = "joinRecv"
AtMostOneActiveClient ==
    /\ Cardinality({k \in Clients : Active(k)}) <= 1
    /\ \A k \in Clients : ~conns[k].stale

\* the first client, still connected next to the second, has been sent a
\* frame that was dequeued after the second connected
FrameDeliveredToReplacedClient ==
    \E k \in Clients :
        /\ wsLatest # k
        /\ Active(k) /\ Active(wsLatest)
        /\ conns[k].stale

(***************************************************************************)
(* C19.  The inbound and the outbound queue of the control channel never   *)
(* hold more than 1000 frames: an enqueue on a full queue drops the oldest *)
(* frame and does not block.                                               *)
(***************************************************************************)
QueuesBounded ==
    /\ Len(wsSendQ) <= WsQueueMax
    /\ Len(wsRecvQ) <= WsQueueMax

\* the 1001st frame has been enqueued and the oldest one is still queued
OldestFrameKept ==
    /\ wsEnqueued = WsQueueMax + 1
    /\ Len(wsSendQ) = WsQueueMax + 1
    /\ Head(wsSendQ) = 1

(***************************************************************************)
(* C20.  Frames of the control channel go out in the order in which        *)
(* send_message enqueued them: of any two frames that are both sent, the   *)
(* one enqueued first is sent first.  Frames are numbered by enqueue       *)
(* order, so the numbers on the wire increase.                             *)
(***************************************************************************)
SentInEnqueueOrder ==
    \A i, j \in 1..Len(wsWire) : i < j => wsWire[i] < wsWire[j]

\* two clients are connected; the send loop of one took frame 1, the send
\* loop of the other took frame 2 and sent it first
LaterFrameSentFirst ==
    \E k1, k2 \in Clients :
        /\ k1 # k2
        /\ wsWire = <<2, 1>>
        /\ conns[k1].delivered = <<1>>
        /\ conns[k2].delivered = <<2>>

(***************************************************************************)
(* C21.  Once the far end speaks over queued audio the engine is paused:   *)
(* the send queue is drained, and no payload that was queued before that   *)
(* moment is transmitted after it.                                         *)
(***************************************************************************)
StaleAudioNeverSent ==
    /\ ~barge.sent
    /\ barge.spoke => barge.stale = 0

\* a payload queued before the far end spoke has been transmitted after it
StaleAudioPlayed ==
    /\ barge.spoke /\ barge.sent
    /\ Len(emitted) >= 1
    /\ emitted[Len(emitted)].payload \in Payloads

(***************************************************************************)
(* C22.  While the sender runs every tick emits one packet: a thread that  *)
(* has entered a pass of its loop can always complete it, with a queued    *)
(* payload or, on an empty queue, with 160 bytes of silence.  The sender   *)
(* never waits for audio to be queued.                                     *)
(***************************************************************************)
SenderNeverStalls ==
    (sender.running /\ sender.pc = "get" /\ ticks < MaxTicks)
        => ENABLED SendLoopBody

\* a running sender sits in its pass with nothing queued, after having sent
\* the queued audio
SenderWaitsForAudio ==
    /\ sender.running /\ sender.pc = "get"
    /\ sender.queue = <<>>
    /\ ticks >= 1 /\ ticks < MaxTicks
    /\ ~ENABLED (SendLoopBody \/ SendLoopTest)

(***************************************************************************)
(* C23.  The receive queue of a dialog's RTP engine never holds more than  *)
(* its maximum of 500 packets: a packet that arrives on a full queue       *)
(* pushes out the oldest one.                                              *)
(***************************************************************************)
RecvQueueBounded == Len(receiver.queue) <= RtpRecvQueueMax

\* the 501st packet has been queued behind the first
OldestPacketKept ==
    /\ receiver.recv_buffer = RtpRecvQueueMax + 1
    /\ Len(receiver.queue) = RtpRecvQueueMax + 1
    /\ Head(receiver.queue) = 1

(***************************************************************************)
(* C24.  After stop() every loop thread of the engine sees the flag and    *)
(* exits, whatever the state of its queue, an empty send queue included:   *)
(* a sender thread that is alive when the flag is cleared is eventually    *)
(* gone.                                                                   *)
(***************************************************************************)
StoppedSenderExits ==
    []((~sender.running /\ sender.pc \in {"while", "get"} /\ ticks < MaxTicks)
          => <>(sender.pc = "dead"))

\* stop() has returned while the thread waits for a payload
SenderStoppedWhileWaiting ==
    /\ ~sender.running
    /\ sender.pc = "get"
    /\ sender.queue = <<>>
    /\ ticks < MaxTicks

(***************************************************************************)
(* C25.  A failure of the speech-to-speech pipeline during a turn ends     *)
(* neither the call nor the loop of the media bridge: when a turn ends     *)
(* with an exception of any stage, the loop is alive and back at its       *)
(* receive, the capture buffer is empty, the call is the same and the      *)
(* frames waiting in the connection are still there.                       *)
(***************************************************************************)
PipelineFailureContained ==
    [][(bridge.pc = "inferring" /\ bridge'.pc # "inferring" /\ bridge'.outcome # "ok")
          => /\ bridge'.alive
             /\ bridge'.pc = "recv"
             /\ bridge'.buffer = 0
             /\ bridge'.call_id = bridge.call_id
             /\ inbox' = inbox]_vars

\* after a turn that failed, a later speech frame of the call is buffered
FrameBufferedAfterFailure ==
    /\ bridge.outcome \in PipelineOutcomes \ {"ok"}
    /\ bridge.alive /\ bridge.pc = "recv"
    /\ bridge.call_id # NoCall
    /\ bridge.buffer >= 1

(***************************************************************************)
(* C26.  The bridge hands a turn to the pipeline only when the VAD has     *)
(* reported silence for at least endpoint-silence-frames (10) frames in a  *)
(* row, with at least 50 frames in the capture buffer: one frame without   *)
(* speech does not cut the turn.                                           *)
(***************************************************************************)
TurnCutAfterSustainedSilence ==
    LET endpoint_silence_frames == 10
    IN  bridge.pc = "inferring" => bridge.cutSilence >= endpoint_silence_frames

\* the first frame without speech after fifty frames of speech has cut the
\* turn
TurnCutByOneFrame ==
    /\ bridge.pc = "inferring"
    /\ bridge.cutSilence = 1
    /\ bridge.buffer = 0

(***************************************************************************)
(* C27.  At most one inference is in flight per dialog, and a frame that   *)
(* arrives while it is in flight is never added to a capture buffer,       *)
(* neither during the inference nor after it has returned.                 *)
(***************************************************************************)
LateFramesNeverBuffered == ~bridge.lateBuffered

\* the inference has returned and a speech frame that arrived during it is
\* in the capture buffer of the next turn
LateFrameInNextTurn ==
    /\ bridge.lateBuffered
    /\ bridge.pc = "recv"
    /\ bridge.outcome # "none"
    /\ bridge.buffer >= 1

(***************************************************************************)
(* C28.  When the handling of a first INVITE of a call ends with an error  *)
(* response (400, 488 or 500), nothing of the dialog is left: no entry for *)
(* the Call-ID in the dialog table, no RTP socket bound for it, no port in *)
(* the allocated set of its session.                                       *)
(***************************************************************************)
ErrorResponses == {<<Response(400)>>, <<Response(488)>>, <<Response(500)>>}
FailedInviteLeavesNothing ==
    (last.op = "INVITE" /\ ~last.known /\ last.sip \in ErrorResponses)
        => /\ last.cid \notin DOMAIN sessions
           /\ ~last.obj.has_handle
           /\ last.obj.alloc.allocated = {}

\* the INVITE was answered 500 because the RTP socket could not be bound,
\* and the pair taken for it is still allocated
FailedInviteKeepsPair ==
    /\ last.op = "INVITE" /\ ~last.known
    /\ last.sip = <<Response(500)>>
    /\ last.cid \notin DOMAIN sessions
    /\ last.obj.alloc.allocated = {last.obj.local_send_port, last.obj.local_recv_port}
    /\ last.obj.local_send_port = StartPort

(***************************************************************************)
(* C29.  Ports are allocated exactly as long as a dialog of the table owns *)
(* them: the ports of every dialog in the table are in the allocated set   *)
(* of its session, and when a dialog leaves the table (BYE, CANCEL, 200 OK *)
(* to BYE, failure response) or an outbound call is given up, the          *)
(* allocated set of its session is empty.                                  *)
(***************************************************************************)
DialogGone == last.cid \notin DOMAIN sessions /\ (last.known \/ last.op = "CALL")
PortsAllocatedIffOwned ==
    /\ \A c \in DOMAIN sessions :
           {sessions[c].local_send_port, sessions[c].local_recv_port}
               \subseteq sessions[c].alloc.allocated
    /\ DialogGone => last.obj.alloc.allocated = {}

\* the 200 OK to a BYE has removed an outbound dialog and both ports of its
\* pair are still allocated
ByeAnswerKeepsPair ==
    /\ last.op = "response" /\ last.known
    /\ last.status = 200 /\ last.cseq = "BYE"
    /\ last.cid \in Uuids
    /\ last.cid \notin DOMAIN sessions
    /\ last.obj.alloc.allocated = {StartPort, StartPort + 2}

(***************************************************************************)
(* C30.  For an inbound dialog no RTP packet is sent and no received RTP   *)
(* packet is processed before its ACK has been handled: the dialog enters  *)
(* the table with an engine that is not running and has nothing buffered   *)
(* or queued, and as long as the threads of the engine were never started  *)
(* only the handling of an ACK for this Call-ID starts them, queues audio  *)
(* or lets a packet through.                                               *)
(***************************************************************************)
NeverStarted(h) == h.rcv_thread = "none" /\ h.snd_thread = "none"
EngineIdle(h) ==
    /\ ~h.rcv_running /\ ~h.snd_running
    /\ h.recv_buffer = 0 /\ h.send_queue = 0
InsideRange(a, port) == a.start_port <= port /\ port < a.end_port

PairsInsideRange ==
    /\ \A i \in 1..Len(issued) :
          /\ issued[i][1] % 2 = 0
          /\ issued[i][2] = issued[i][1] + 2
          /\ InsideRange(pool, issued[i][1])
          /\ InsideRange(pool, issued[i][2])
    /\ \A i \in 1..(Len(issued) - 1) : issued[i + 1][1] = issued[i][1] + 4

\* allocate_pair has returned a pair whose second port lies past the end of
\* the range
PairPastRangeEnd ==
    /\ poolLast.op = "allocate_pair"
    /\ poolLast.ok
    /\ InsideRange(pool, poolLast.send_port)
    /\ poolLast.recv_port > pool.end_port

(***************************************************************************)
(* C38: allocate_pair raises the no-ports error only when every pair of    *)
(* the range is in the allocated set at the time of the call, whatever     *)
(* allocate_pair and release_pair calls came before.                       *)
(***************************************************************************)
\* the pairs (p, p + 2) a range holds, p a multiple of the stride away from
\* its start
PairsOf(a) ==
    {<<q, q + 2>> : q \in {r \in a.start_port..(a.end_port - 1) :
                              /\ (r - a.start_port) % 4 = 0
                              /\ r + 2 < a.end_port}}

PairFree(allocated, pr) == pr[1] \notin allocated /\ pr[2] \notin allocated

NoPortsOnlyWhenExhausted ==
    (poolLast.op = "allocate_pair" /\ ~poolLast.ok) =>
        \A pr \in PairsOf(pool) : ~PairFree(poolLast.before, pr)

\* allocate_pair has raised while a pair of the range, given back by
\* release_pair, was free
NoPortsWithFreePair ==
    /\ poolLast.op = "allocate_pair"
    /\ ~poolLast.ok
    /\ \E i \in 1..Len(issued) :
          /\ issued[i] \in PairsOf(pool)
          /\ PairFree(poolLast.before, issued[i])

(***************************************************************************)
(* C33: unpack(pack(P)) = P for every packet P of version 2 with payload   *)
(* type PCMA or PCMU, a 16-bit sequence, 32-bit timestamp and ssrc, any    *)
(* padding, extension and marker flags, a CSRC count of the 4-bit header   *)
(* field and a payload of at most 1452 bytes: pack raises nothing, unpack  *)
(* raises nothing and returns a packet equal to P field by field.          *)
(***************************************************************************)
RoundTrip ==
    /\ codec.pc # "failed"
    /\ codec.pc = "unpacked" => codec.q = codec.p

\* a packet with every flag set, the largest field values and the longest
\* payload has gone through pack and unpack
LargestPacketUnpacked ==
    /\ codec.pc = "unpacked"
    /\ codec.p.padding /\ codec.p.extension /\ codec.p.marker
    /\ codec.p.csrc_count = 15
    /\ codec.p.payload_type = 0
    /\ codec.p.sequence = SeqModulus - 1
    /\ codec.p.timestamp = U32(SeqModulus - 1, SeqModulus - 1)
    /\ Len(codec.p.payload) = MaxPayload
    /\ Len(codec.data) = 12 + MaxPayload

(***************************************************************************)
(* C32: a datagram shorter than 12 bytes, or one whose version field       *)
(* (byte0 >> 6) is not 2, is rejected by unpack, so the pass of the        *)
(* receiver loop that took it leaves the recording buffer, the receive     *)
(* queue and the statistics as they were.                                  *)
(***************************************************************************)
Malformed(data) == Len(data) < 12 \/ (data[1] \div 64) # 2

MalformedDatagramDropped ==
    (receiver.number_of_packets > 0 /\ Malformed(receiver.took.data)) =>
        /\ receiver.recv_buffer = receiver.took.recv_buffer
        /\ Len(receiver.queue) = receiver.took.queued
        /\ receiver.stats = receiver.took.stats

\* a datagram with a full header of version 1 has been buffered, queued and
\* counted
WrongVersionStored ==
    /\ receiver.number_of_packets > 0
    /\ Len(receiver.took.data) >= 12
    /\ (receiver.took.data[1] \div 64) = 1
    /\ receiver.recv_buffer = receiver.took.recv_buffer + 1
    /\ Len(receiver.queue) = receiver.took.queued + 1
    /\ receiver.stats.total_packets = receiver.took.stats.total_packets + 1

(***************************************************************************)
(* C34: lost_packets grows by the forward gap of each stored packet under  *)
(* the shorter-arc rule modulo 2^16: by k for a packet k ahead of the      *)
(* expected sequence number (0 < k < 2^15), by nothing for the expected    *)
(* packet (the step 65535 -> 0 included), and by nothing for a duplicate   *)
(* or late packet (behind the expected one by less than 2^15).             *)
(***************************************************************************)
Stored == receiver.stats.total_packets = receiver.took.stats.total_packets + 1

ShorterArcLoss(last_sequence, sequence) ==
    LET ahead == (sequence - (last_sequence + 1)) % SeqModulus
    IN  IF last_sequence >= 0 /\ ahead < SeqModulus \div 2 THEN ahead ELSE 0

LossByShorterArc ==
    Stored =>
        receiver.stats.lost_packets =
            receiver.took.stats.lost_packets
              + ShorterArcLoss(receiver.took.stats.last_sequence,
                               receiver.stats.last_sequence)

\* the packet stored last was stored again and counted as 65535 lost packets
DuplicateCountedAsLoss ==
    /\ Stored
    /\ receiver.took.stats.last_sequence >= 0
    /\ receiver.stats.last_sequence = receiver.took.stats.last_sequence
    /\ receiver.stats.lost_packets = receiver.took.stats.lost_packets + SeqModulus - 1

(***************************************************************************)
(* C35: for an INVITE that opens a dialog with a parseable offer holding   *)
(* an audio block, the remote RTP address of the session is the c= address *)
(* of the first media block when it has one, and the session-level c=      *)
(* address otherwise; the offer is taken in both cases (nothing but the    *)
(* bind of the RTP socket can still fail), and an offer with neither c=    *)
(* line is rejected.                                                       *)
(***************************************************************************)
OfferAddress(raw) ==
    IF raw.media[1].c # <<>> THEN raw.media[1].c[3] ELSE raw.c[3]

RemoteAddressFromOffer ==
    (/\ last.op = "INVITE" /\ ~last.known
     /\ last.offer.kind = "sdp" /\ last.offer.raw.wellFormed
     /\ last.offer.raw.media # <<>>)
        => LET raw == last.offer.raw
           IN  IF raw.c = <<>> /\ raw.media[1].c = <<>>
                 THEN last.sip \in {<<Response(488)>>, <<Response(500)>>}
                 ELSE raw.media[1].type = "audio" =>
                        /\ last.obj.params.remote_ip = OfferAddress(raw)
                        /\ \/ \E port \in StartPort..EndPort :
                                last.sip = <<OkResponse(port, last.obj.params)>>
                           \/ last.sip = <<Response(500)>> /\ ~last.obj.has_handle

\* an offer with a session-level c= line and none in its audio block was
\* answered 500, before any port was taken for it
SessionLevelOfferRejected ==
    /\ last.op = "INVITE" /\ ~last.known
    /\ last.offer = SdpBody(OfferSessionC)
    /\ last.sip = <<Response(500)>>
    /\ last.obj.params = NoParams
    /\ last.obj.alloc.allocated = {}
    /\ last.cid \notin DOMAIN sessions

(***************************************************************************)
(* C36: when an INVITE is answered 200 OK, the port in the m=audio line of *)
(* the answer is the local port the socket of the dialog's RTP engine is   *)
(* bound to, so that the peer's RTP arrives at the receiver loop.          *)
(***************************************************************************)
AdvertisedPortIsBound ==
    (/\ last.op = "INVITE" /\ ~last.known
     /\ last.sip # <<>> /\ last.sip[1].code = 200)
        => /\ last.cid \in DOMAIN sessions
           /\ sessions[last.cid].has_handle
           /\ last.sip[1].sdp.m_port = sessions[last.cid].rtp.local_port
           /\ last.sip[1].sdp.m_port \in bound

\* the answer names the second port of the pair while the only socket of
\* the engine is bound to the first; no socket holds the port named
AnswerNamesUnboundPort ==
    /\ last.op = "INVITE" /\ ~last.known
    /\ last.sip # <<>> /\ last.sip[1].code = 200
    /\ last.cid \in DOMAIN sessions
    /\ sessions[last.cid].rtp.sock_open
    /\ sessions[last.cid].rtp.local_port = StartPort
    /\ last.sip[1].sdp.m_port = StartPort + 2
    /\ last.sip[1].sdp.m_port \notin bound

(***************************************************************************)
(* C37: every control frame the relay emits is accepted by the parser of   *)
(* the peer, and parsing the wire form of the command gives back a command *)
(* of the same type and content, for frames with and without content.      *)
(***************************************************************************)
ServerFramesRoundTrip ==
    (framing.pc = "parsed" /\ framing.cmd \in ServerCommands) =>
        /\ framing.raised = "none"
        /\ framing.back.type = framing.cmd.type
        /\ framing.back.content = framing.cmd.content

\* the BYE frame of _handle_bye, written as the text BYE, made the parser
\* raise at the split on the colon
BareByeRejected ==
    /\ framing.pc = "parsed"
    /\ framing.cmd = Command("BYE", <<>>)
    /\ framing.text = <<"BYE">>
    /\ framing.raised = "ValueError"

(***************************************************************************)
(* C39: the media bridge buffers RTP frames only between a CALL_ANS and    *)
(* the next BYE: no frame is buffered, and no turn is started, before the  *)
(* first CALL_ANS or after a BYE, and the buffer is empty when the loop    *)
(* has handled a CALL_ANS.                                                 *)
(***************************************************************************)
CapturedOnlyInCall ==
    [][/\ bridge'.buffer > bridge.buffer => capture.phase = "call"
       /\ (bridge.pc = "recv" /\ bridge'.pc = "inferring") => capture.phase = "call"
       /\ (bridge.pc = "recv" /\ inbox # <<>> /\ inbox' = Tail(inbox)
             /\ Head(inbox).kind = "CALL_ANS") => bridge'.buffer = 0]_vars

\* a speech frame that came after the BYE of the call is in the buffer
FrameCapturedAfterBye ==
    /\ capture.phase = "ended"
    /\ capture.stray
    /\ bridge.buffer > 0
    /\ bridge.call_id # NoCall

(***************************************************************************)
(* C40: the send loop of a client connection runs as long as the           *)
(* connection is open and its own handler waits for its recv loop: the     *)
(* closing of another connection never ends it.                            *)
(***************************************************************************)
OpenConnectionKeepsSendLoop ==
    \A k \in Clients :
        (/\ conns[k].state = "open"
         /\ conns[k].recv = "alive"
         /\ conns[k].handler = "joinRecv") => conns[k].send # "dead"

\* a client is connected and its recv loop runs, but its send loop has
\* ended after the handler of the other client, which closed, cleared the
\* running flag
SendLoopEndedByOtherClient ==
    \E k \in Clients, j \in Clients :
        /\ j # k
        /\ conns[k].state = "open" /\ conns[k].recv = "alive"
        /\ conns[k].handler = "joinRecv"
        /\ conns[k].send = "dead"
        /\ conns[j].state = "closed"
        /\ conns[j].handler \in {"joinSend", "done"}
        /\ ~wsRunning
        /\ wsSendQ # <<>>

====
